---- MODULE Spec2Model ----
(***************************************************************************)
(* A model of the streaming JSON decoder jstream: the double-buffered      *)
(* scanner with its prefetch goroutine, the recursive-descent parser       *)
(* running as the decode goroutine, the emission channel and a consumer.   *)
(*                                                                         *)
(* Bytes are naturals 0..255.  The decode goroutine is a call stack of     *)
(* frames; one step of it runs the code of the frame on top from its       *)
(* program point up to the next atomic load of End, channel operation or   *)
(* call.  The Keys slices live in a heap of backing arrays, as Go's        *)
(* append shares them.                                                     *)
(***************************************************************************)
EXTENDS Integers, Sequences, FiniteSets, TLC

VARIABLES
    input,      \* the bytes the reader will deliver
    docs,       \* the values the input was rendered from (<<>>: a raw input)
    opts,       \* the arguments of NewDecoder and the option calls made
    orig,       \* <<>>, or <<v>>: input is KVS v as MarshalJSON wrote it
    sc,         \* Scanner: Pos, End, ipos, ifill, buf, and the point Next is at
    nbuf,       \* Scanner.nbuf, the prefetch buffer
    w,          \* the prefetch goroutine: pc, rpos, n, and the reader's offset
    fillReady,  \* "open" | "closed"
    d,          \* Decoder: emitDepth, emitKV, emitRecursive, objectAsKVS, depth, scratch, err, lineNo, lineStart
    stack,      \* the decode goroutine's call stack
    heap,       \* backing arrays of the []string key slices
    metaCh,     \* the emission channel: its buffer and whether it is closed
    recvd,      \* what the consumer has received, in order
    log,        \* history: one entry per value whose parse finished
    lastNext    \* history: the last call of Scanner.Next

vars == <<input, docs, opts, orig, sc, nbuf, w, fillReady, d, stack, heap, metaCh, recvd, log, lastNext>>

----------------------------------------------------------------------------
(* Bounds of the model *)

\* scanner.go:9 sets chunk = 4095; the model runs the same code on a small chunk
chunk == 3
\* part_000:97 makes metaCh with capacity 128; the model uses a small capacity
MetaChCap == 2

\* scanner.go:11, maxInt: the source's 2^63-1, here the largest integer of the checker
maxInt == 2147483647

----------------------------------------------------------------------------
(* Bytes *)

B == [quote |-> 34, bslash |-> 92, slash |-> 47, apos |-> 39,
      lbrack |-> 91, rbrack |-> 93, lbrace |-> 123, rbrace |-> 125,
      comma |-> 44, colon |-> 58, minus |-> 45, plus |-> 43, dot |-> 46,
      zero |-> 48, one |-> 49, nine |-> 57,
      sp |-> 32, tab |-> 9, cr |-> 13, nl |-> 10,
      a |-> 97, b |-> 98, e |-> 101, f |-> 102, l |-> 108, n |-> 110,
      r |-> 114, s |-> 115, t |-> 116, u |-> 117, x |-> 120,
      A |-> 65, E |-> 69, F |-> 70]

IsDigit(c) == c >= B.zero /\ c <= B.nine

----------------------------------------------------------------------------
(* Values: the interface{} payloads *)

NilV == [k |-> "nil"]
BoolV(b) == [k |-> "bool", b |-> b]
IntV(n) == [k |-> "int64", n |-> n]
\* a float64 as mant * 10^exp, mant without trailing zeros; neg is the sign
\* bit, which a zero has too
FloatV(m, e) == [k |-> "float64", m |-> m, e |-> e, neg |-> m < 0]
StrV(s) == [k |-> "string", s |-> s]
\* []interface{}; array() makes every one with make([]interface{}, 0), never nil
ArrV(items) == [k |-> "slice", isnil |-> FALSE, items |-> items]
\* map[string]interface{}: nil, or a function from its keys
MapV(isnil, m) == [k |-> "map", isnil |-> isnil, m |-> m]
KvsV(isnil, kvs) == [k |-> "KVS", isnil |-> isnil, kvs |-> kvs]
\* a member published without its key (C8 tells it from KVv)
KVBare(key, v) == v
KVv(key, v) == [k |-> "KV", Key |-> key, Value |-> v]

NoErr == [kind |-> "nil", ctx |-> "", at |-> 0, line |-> 0, col |-> 0]

----------------------------------------------------------------------------
(* []string slices over shared backing arrays *)

\* []string{}: no backing array
EmptySlice == [arr |-> 0, len |-> 0, cap |-> 0]

\* the strings a reader of the slice sees now
Deref(h, sl) == IF sl.len = 0 THEN <<>> ELSE SubSeq(h[sl.arr], 1, sl.len)

\* runtime.growslice for 16-byte elements below 256: double, or what is needed
GrowCap(oldcap, needed) == IF needed > 2 * oldcap THEN needed ELSE 2 * oldcap

\* an append that stores "" whatever the key (C5 tells it from AppendKey)
AppendKeyBlank(h, sl, key) ==
    IF sl.len < sl.cap
    THEN [heap |-> [h EXCEPT ![sl.arr][sl.len + 1] = <<>>],
          sl   |-> [sl EXCEPT !.len = @ + 1]]
    ELSE LET newcap == GrowCap(sl.cap, sl.len + 1)
             fresh  == [i \in 1..newcap |-> IF i <= sl.len THEN h[sl.arr][i] ELSE <<>>]
         IN [heap |-> Append(h, fresh),
             sl   |-> [arr |-> Len(h) + 1, len |-> sl.len + 1, cap |-> newcap]]

\* append(sl, k): in place when capacity is left, else into a fresh array
AppendKey(h, sl, key) ==
    IF sl.len < sl.cap
    THEN [heap |-> [h EXCEPT ![sl.arr][sl.len + 1] = key],
          sl   |-> [sl EXCEPT !.len = @ + 1]]
    ELSE LET newcap == GrowCap(sl.cap, sl.len + 1)
             fresh  == [i \in 1..newcap |->
                          IF i <= sl.len THEN h[sl.arr][i]
                          ELSE IF i = sl.len + 1 THEN key ELSE <<>>]
         IN [heap |-> Append(h, fresh),
             sl   |-> [arr |-> Len(h) + 1, len |-> sl.len + 1, cap |-> newcap]]

----------------------------------------------------------------------------
(* Scratch buffer and the conversions of its contents *)

\* Scratch.Add: growth of Data does not change Bytes()
ScratchAdd(scratch, c) == Append(scratch, c)

\* utf8.EncodeRune
EncodeRune(r) ==
    IF r < 0 \/ r > 1114111 \/ (r >= 55296 /\ r <= 57343)
    THEN <<239, 191, 189>>
    ELSE IF r < 128 THEN <<r>>
    ELSE IF r < 2048 THEN <<192 + (r \div 64), 128 + (r % 64)>>
    ELSE IF r < 65536
         THEN <<224 + (r \div 4096), 128 + ((r \div 64) % 64), 128 + (r % 64)>>
    ELSE <<240 + (r \div 262144), 128 + ((r \div 4096) % 64),
           128 + ((r \div 64) % 64), 128 + (r % 64)>>

\* Scratch.AddRune
ScratchAddRune(scratch, r) == scratch \o EncodeRune(r)

\* utf16.IsSurrogate
IsSurrogate(r) == r >= 55296 /\ r < 57344

\* a pair combined without the offset of the supplementary planes
DecodeRuneInBMP(r1, r2) == (r1 - 55296) * 1024 + (r2 - 56320)

\* utf16.DecodeRune
DecodeRune(r1, r2) ==
    IF r1 >= 55296 /\ r1 < 56320 /\ r2 >= 56320 /\ r2 < 57344
    THEN (r1 - 55296) * 1024 + (r2 - 56320) + 65536
    ELSE 65533

RECURSIVE DecVal(_)
\* the number a run of decimal digits denotes (t: the run, taken once)
DecVal(s) == IF s = <<>> THEN 0
             ELSE CHOOSE v \in { DecVal(SubSeq(t, 1, Len(t) - 1)) * 10 + (t[Len(t)] - B.zero) :
                                 t \in {s} } : TRUE

RECURSIVE DigitRun(_, _)
\* how many digits s holds from index i on
DigitRun(s, i) == IF i <= Len(s) /\ IsDigit(s[i]) THEN 1 + DigitRun(s, i + 1) ELSE 0

RECURSIVE SeqLess(_, _)
\* a < b for two runs of decimal digits of the same length
SeqLess(a, b) ==
    IF a = <<>> \/ b = <<>> THEN FALSE
    ELSE IF Head(a) # Head(b) THEN Head(a) < Head(b)
    ELSE SeqLess(Tail(a), Tail(b))

RECURSIVE DropZeros(_)
DropZeros(s) == IF Len(s) > 1 /\ Head(s) = B.zero THEN DropZeros(Tail(s)) ELSE s

RECURSIVE ZeroRun(_)
ZeroRun(n) == IF n <= 0 THEN <<>> ELSE <<B.zero>> \o ZeroRun(n - 1)

\* a run of digits cut or filled with zeros to n digits
FitTo(ds, n) == IF Len(ds) >= n THEN SubSeq(ds, 1, n) ELSE ds \o ZeroRun(n - Len(ds))

\* the digits of 2^63 - 1
MaxInt64Digits ==
    [i \in 1..19 |-> B.zero + <<9, 2, 2, 3, 3, 7, 2, 0, 3, 6, 8, 5, 4, 7, 7, 5, 8, 0, 7>>[i]]

\* strconv.ParseInt(sn, 10, 64) of the digits number() collected: a syntax
\* error for anything but digits, a range error above 2^63 - 1
ParseInt(s) ==
    IF s = <<>> \/ DigitRun(s, 1) # Len(s)
    THEN [v |-> IntV(0), err |-> [NoErr EXCEPT !.kind = "strconv", !.ctx = "ParseInt"]]
    ELSE IF \/ Len(DropZeros(s)) > 19
            \/ Len(DropZeros(s)) = 19 /\ SeqLess(MaxInt64Digits, DropZeros(s))
    THEN [v |-> IntV(0), err |-> [NoErr EXCEPT !.kind = "strconv", !.ctx = "ParseInt"]]
    ELSE [v |-> IntV(DecVal(s)), err |-> NoErr]

RECURSIVE NormFloat(_, _)
NormFloat(m, e) == IF m = 0 THEN FloatV(0, 0)
                   ELSE IF m % 10 = 0 THEN NormFloat(m \div 10, e + 1)
                   ELSE FloatV(m, e)

RECURSIVE DigitsOf(_)
\* the decimal digits of n >= 0
DigitsOf(n) == IF n < 10 THEN <<B.zero + n>> ELSE DigitsOf(n \div 10) \o <<B.zero + (n % 10)>>

\* the first ten digits of the largest float64, 1.797693134862315708e308
MaxFloatDigits == [i \in 1..10 |-> B.zero + <<1, 7, 9, 7, 6, 9, 3, 1, 3, 4>>[i]]

\* m * 10^e, m > 0 of at most ten digits, is beyond the largest float64
\* (rounds to +Inf)
FloatOverflows(m, e) ==
    LET nd == Len(DigitsOf(m)) + e IN
    nd > 309 \/ (nd = 309 /\ SeqLess(MaxFloatDigits, FitTo(DigitsOf(m), 10)))

\* the least float64, 2^-1074, in units of 10^-324: 4.94065645841..., forty digits
UlpDigits ==
    [i \in 1..40 |-> B.zero + <<4, 9, 4, 0, 6, 5, 6, 4, 5, 8, 4, 1, 2, 4, 6, 5, 4, 4, 1, 7,
                          6, 5, 6, 8, 7, 9, 2, 8, 6, 8, 2, 2, 1, 3, 7, 2, 3, 6, 5, 0>>[i]]
\* 10^-324 in units of 2^-1074: 0.2024022533..., forty digits after the point
PerUlpDigits ==
    [i \in 1..40 |-> B.zero + <<2, 0, 2, 4, 0, 2, 2, 5, 3, 3, 0, 7, 3, 1, 0, 6, 1, 8, 3, 5,
                          2, 4, 9, 5, 3, 4, 6, 7, 1, 8, 9, 1, 7, 3, 0, 7, 0, 4, 9, 5>>[i]]

RECURSIVE TimesInt(_, _, _, _)
\* the digits of a * n from the r-th digit from the right on, a a run of
\* digits, 0 <= n < 2^31 taken in two halves of five digits, with leading zeros
TimesInt(a, n, r, carry) ==
    IF r > Len(a) + 5 THEN (IF carry = 0 THEN <<>> ELSE DigitsOf(carry))
    ELSE LET lo == IF r <= Len(a) THEN a[Len(a) + 1 - r] - B.zero ELSE 0
             hi == IF r > 5 THEN a[Len(a) + 6 - r] - B.zero ELSE 0
         IN CHOOSE t \in { TimesInt(a, n, r + 1, s \div 10) \o <<B.zero + (s % 10)>> :
                            s \in {lo * (n % 100000) + hi * (n \div 100000) + carry} } : TRUE

\* the number the first cut digits of P denote, rounded by the digit after them
RoundAt(P, cut) ==
    DecVal(DropZeros(SubSeq(P, 1, cut))) + (IF P[cut + 1] >= B.zero + 5 THEN 1 ELSE 0)

\* the multiple of 2^-1074 nearest to n * 10^x * 10^-324, -9 <= x <= 9 (no
\* such decimal lies half way between two)
Ulps(n, x) ==
    CHOOSE k \in { RoundAt(P, Len(P) - 40 + x) :
                   P \in {ZeroRun(10) \o TimesInt(PerUlpDigits, n, 1, 0)} } : TRUE

\* the float64 k * 2^-1074, 0 <= k < 2^31, as its shortest decimal, the one
\* nearest to it. The decimals read as this float64 lie less than 2.5 * 10^-324
\* from it: the multiple of 10^-323 nearest to it if that is one of them,
\* and else the nearest multiple of 10^-324, which always is
Shortest(k) ==
    IF k = 0 THEN FloatV(0, 0)
    ELSE CHOOSE f \in { IF Ulps(RoundAt(mid, Len(mid) - 40), 1) = k
                        THEN NormFloat(RoundAt(mid, Len(mid) - 40), 0 - 323)
                        ELSE NormFloat(RoundAt(mid, Len(mid) - 39), 0 - 324) :
                        mid \in {ZeroRun(10) \o TimesInt(UlpDigits, k, 1, 0)} } : TRUE

FloatErr == [v |-> FloatV(0, 0), err |-> [NoErr EXCEPT !.kind = "strconv", !.ctx = "ParseFloat"]]

\* the float64 nearest to the decimal nf, nf.m >= 0: a range error when it is
\* +Inf (number() then returns 0 with the error); below 10^-323 the float64s
\* are the multiples of 2^-1074, zero among them; elsewhere a decimal of at
\* most ten digits is the shortest decimal of its float64
RoundFloat(nf) ==
    IF nf.m = 0 THEN [v |-> nf, err |-> NoErr]
    ELSE IF FloatOverflows(nf.m, nf.e) THEN FloatErr
    ELSE IF nf.e > 0 - 324 THEN [v |-> nf, err |-> NoErr]
    ELSE IF nf.e < 0 - 333 THEN [v |-> FloatV(0, 0), err |-> NoErr]
    ELSE [v |-> CHOOSE f \in {Shortest(k) : k \in {Ulps(nf.m, nf.e + 324)}} : TRUE,
          err |-> NoErr]

\* strconv.ParseFloat(sn, 64) on decimal text: digits [. digits] [e [sign] digits],
\* a digit in the mantissa and in a present exponent required; a range error
\* for a value that rounds to Inf, zero for one that rounds to zero (number()
\* returns 0 with the error)
ParseFloat(s) ==
    LET n1    == DigitRun(s, 1)
        hasD  == n1 + 1 <= Len(s) /\ s[n1 + 1] = B.dot
        n2    == IF hasD THEN DigitRun(s, n1 + 2) ELSE 0
        p     == n1 + (IF hasD THEN 1 + n2 ELSE 0)
        hasE  == p + 1 <= Len(s) /\ s[p + 1] \in {B.e, B.E}
        sgn   == hasE /\ p + 2 <= Len(s) /\ s[p + 2] \in {B.plus, B.minus}
        q     == p + (IF hasE THEN 1 ELSE 0) + (IF sgn THEN 1 ELSE 0)
        n3    == IF hasE THEN DigitRun(s, q + 1) ELSE 0
        good  == n1 + n2 >= 1 /\ (hasE => n3 >= 1) /\ q + n3 = Len(s)
        mant  == DecVal(SubSeq(s, 1, n1) \o SubSeq(s, n1 + 2, n1 + 1 + n2))
        ex    == DecVal(SubSeq(s, q + 1, q + n3))
        exp   == (IF sgn /\ s[p + 2] = B.minus THEN 0 - ex ELSE ex) - n2
    IN IF ~good THEN FloatErr
       ELSE CHOOSE r \in {RoundFloat(nf) : nf \in {NormFloat(mant, exp)}} : TRUE

----------------------------------------------------------------------------
(* The machine a step of the decode goroutine transforms: the variables it
   may write, and ok, false when the step has to wait *)

Machine == [sc |-> sc, d |-> d, stack |-> stack, heap |-> heap,
            ch |-> metaCh, log |-> log, last |-> lastNext, ok |-> TRUE]

TopOf(m) == m.stack[Len(m.stack)]
SetTop(st, f) == [st EXCEPT ![Len(st)] = f]
Goto(m, pc) == [m EXCEPT !.stack = SetTop(@, [TopOf(m) EXCEPT !.pc = pc])]
\* call: the caller resumes at resumePc with the callee's results in ret
Call(m, resumePc, frame) ==
    [m EXCEPT !.stack = Append(SetTop(@, [TopOf(m) EXCEPT !.pc = resumePc]), frame)]
Return(m, res) ==
    LET st == SubSeq(m.stack, 1, Len(m.stack) - 1)
    IN [m EXCEPT !.stack = SetTop(st, [st[Len(st)] EXCEPT !.ret = res])]
Wait(m) == [m EXCEPT !.ok = FALSE]

NoRet == [c |-> 0]

----------------------------------------------------------------------------
(* Scanner *)

\* Scanner.Remaining
Remaining(s) == IF s.End = maxInt THEN maxInt ELSE s.End - s.Pos

\* Scanner.Cur
Cur(s) == s.buf[s.ipos]

\* Scanner.Next up to the point where it returns or has to receive from
\* fillReady; np = "ret" is a Next whose refill is done
DoNext(m) ==
    LET s == m.sc IN
    IF s.np = "ret"
    THEN LET s2 == [s EXCEPT !.Pos = @ + 1, !.np = "idle"]
         IN [m |-> [m EXCEPT !.sc = s2,
                             !.last = [adv |-> TRUE, c |-> s2.buf[s2.ipos], pos |-> s2.Pos]],
             c |-> s2.buf[s2.ipos], blocked |-> FALSE]
    ELSE IF s.Pos >= s.End
    THEN [m |-> [m EXCEPT !.last = [adv |-> FALSE, c |-> 0, pos |-> s.Pos]],
          c |-> 0, blocked |-> FALSE]
    ELSE IF s.ipos + 1 > s.ifill
    THEN [m |-> [m EXCEPT !.sc = [s EXCEPT !.ipos = @ + 1, !.np = "recv"]],
          c |-> 0, blocked |-> TRUE]
    ELSE LET s2 == [s EXCEPT !.ipos = @ + 1, !.Pos = @ + 1]
         IN [m |-> [m EXCEPT !.sc = s2,
                             !.last = [adv |-> TRUE, c |-> s2.buf[s2.ipos], pos |-> s2.Pos]],
             c |-> s2.buf[s2.ipos], blocked |-> FALSE]

\* c := d.Next(), then K; a Next that must refill leaves the frame where it is
NextThen(m, K(_, _)) ==
    LET r == DoNext(m) IN IF r.blocked THEN r.m ELSE K(r.m, r.c)

\* Scanner.Back; a panic ends the goroutine
Back(m) ==
    IF m.sc.ipos <= 0
    THEN [m EXCEPT !.stack = <<[fn |-> "panic", pc |-> "back buffer exhausted", ret |-> NoRet]>>]
    ELSE [m EXCEPT !.sc.ipos = @ - 1, !.sc.Pos = @ - 1]

\* Decoder.mkError
mkError(m, kind, ctx) ==
    [kind |-> kind, ctx |-> ctx, at |-> Cur(m.sc),
     line |-> m.d.lineNo + 1, col |-> m.sc.Pos - m.d.lineStart]

----------------------------------------------------------------------------
(* Frames of the decode goroutine: a function, a program point, and locals *)

DecodeF == [fn |-> "decode", pc |-> "start", ret |-> NoRet]
SkipF == [fn |-> "skipSpaces", pc |-> "cond", ret |-> NoRet]
EmitAnyF(pKeys) == [fn |-> "emitAny", pc |-> "start", pKeys |-> pKeys, offset |-> 0,
                    ret |-> NoRet]
AnyF(pKeys) == [fn |-> "any", pc |-> "start", pKeys |-> pKeys, lit |-> <<>>,
                litv |-> NilV, litt |-> "Unknown", litctx |-> "", ret |-> NoRet]
StringF == [fn |-> "string", pc |-> "open", r |-> 0, h |-> 0, i |-> 0,
            second |-> FALSE, ret |-> NoRet]
NumberF == [fn |-> "number", pc |-> "start", isFloat |-> FALSE, ret |-> NoRet]
ArrayF(pKeys) == [fn |-> "array", pc |-> "start", pKeys |-> pKeys,
                  parentKeys |-> EmptySlice, array |-> <<>>, ret |-> NoRet]
ObjectF(fn, pKeys) == [fn |-> fn, pc |-> "start", pKeys |-> pKeys, k |-> <<>>,
                       keys |-> EmptySlice, offset |-> 0, obj |-> NilV, ret |-> NoRet]

IsContainer(f) == f.fn \in {"array", "object", "objectOrdered"}

\* history: the containers open around the value being parsed, outermost first
Enclosing(st) == SelectSeq(st, IsContainer)
\* history: the path the open containers spell: "" for an array, the member
\* name being parsed for an object
PathOf(st) == [i \in DOMAIN Enclosing(st) |->
                 IF Enclosing(st)[i].fn = "array" THEN <<>> ELSE Enclosing(st)[i].k]

\* a gate that ignores the recursive flag (C1 tells it from willEmit)
willEmitAtOrBelow(dd) == dd.depth >= dd.emitDepth

\* Decoder.willEmit
willEmit(dd) == IF dd.emitRecursive THEN dd.depth >= dd.emitDepth
                ELSE dd.depth = dd.emitDepth

\* a channel that hands out the newest MetaValue first (C9 tells it from Send)
SendFront(m, offset, keys, val, t) ==
    [m EXCEPT !.ch.buf = <<[Offset |-> offset, Length |-> m.sc.Pos - offset,
                            Depth |-> m.d.depth, Keys |-> keys, Value |-> val,
                            ValueType |-> t, keys0 |-> Deref(m.heap, keys),
                            id |-> Len(m.log)]>> \o @]

\* d.metaCh <- &MetaValue{...}; keys0 and id are history: the Keys as they
\* read now, and the log entry of the value
Send(m, offset, keys, val, t) ==
    [m EXCEPT !.ch.buf = Append(@,
        [Offset |-> offset, Length |-> m.sc.Pos - offset, Depth |-> m.d.depth,
         Keys |-> keys, Value |-> val, ValueType |-> t,
         keys0 |-> Deref(m.heap, keys), id |-> Len(m.log)])]

\* history: the log entry of a value whose parse has returned
Logged(m, offset, r, emitted, kv) ==
    [m EXCEPT !.log = Append(@,
        [level |-> Len(Enclosing(m.stack)), path |-> PathOf(m.stack),
         member |-> Len(Enclosing(m.stack)) > 0
                    /\ Enclosing(m.stack)[Len(Enclosing(m.stack))].fn # "array",
         off |-> offset, end |-> m.sc.Pos, failed |-> r.err.kind # "nil",
         emitted |-> emitted, kv |-> kv, v |-> r.v, t |-> r.t])]

----------------------------------------------------------------------------
(* Decoder.decode *)

\* a loop that breaks on an error without d.err = err (C13 tells it from DecodeStep)
DecodeStepDropsErr(m) ==
    LET f == TopOf(m) IN
    CASE f.pc = "start" -> Call(m, "loop", SkipF)
      [] f.pc = "loop" ->
            IF m.sc.Pos < m.sc.End THEN Call(m, "after", EmitAnyF(EmptySlice))
            ELSE Goto(m, "close")
      [] f.pc = "after" ->
            IF f.ret.err.kind # "nil" THEN Goto(m, "close")
            ELSE Call(m, "loop", SkipF)
      [] f.pc = "close" ->
            [m EXCEPT !.ch.closed = TRUE,
                      !.stack = <<[fn |-> "exit", pc |-> "done", ret |-> NoRet]>>]

DecodeStep(m) ==
    LET f == TopOf(m) IN
    CASE f.pc = "start" -> Call(m, "loop", SkipF)
      [] f.pc = "loop" ->
            IF m.sc.Pos < m.sc.End THEN Call(m, "after", EmitAnyF(EmptySlice))
            ELSE Goto(m, "close")
      [] f.pc = "after" ->
            IF f.ret.err.kind # "nil"
            THEN Goto([m EXCEPT !.d.err = f.ret.err], "close")
            ELSE Call(m, "loop", SkipF)
      [] f.pc = "close" ->      \* the deferred close(d.metaCh)
            [m EXCEPT !.ch.closed = TRUE,
                      !.stack = <<[fn |-> "exit", pc |-> "done", ret |-> NoRet]>>]

(* Decoder.skipSpaces *)

SkipGot(m, c) ==
    IF c = B.nl
    THEN Goto([m EXCEPT !.d.lineStart = m.sc.Pos, !.d.lineNo = @ + 1], "cond")
    ELSE IF c \in {B.sp, B.tab, B.cr} THEN Goto(m, "cond")
    ELSE Return(m, [c |-> c])

SkipStep(m) ==
    LET f == TopOf(m) IN
    CASE f.pc = "cond" ->
            IF m.sc.Pos < m.sc.End THEN Goto(m, "next") ELSE Return(m, [c |-> 0])
      [] f.pc = "next" -> NextThen(m, SkipGot)

(* Decoder.emitAny *)

EmitAnyStep(m) ==
    LET f == TopOf(m) IN
    CASE f.pc = "start" ->
            IF m.sc.Pos >= m.sc.End
            THEN Return(m, [v |-> NilV, err |-> mkError(m, "eof", "")])
            ELSE Call([m EXCEPT !.stack = SetTop(@, [f EXCEPT !.offset = m.sc.Pos - 1])],
                      "after", AnyF(f.pKeys))
      [] f.pc = "after" ->
            IF ~willEmit(m.d)
            THEN Return(Logged(m, f.offset, f.ret, FALSE, FALSE),
                        [v |-> f.ret.v, err |-> f.ret.err])
            ELSE IF Len(m.ch.buf) >= MetaChCap THEN Wait(m)
            ELSE Return(Send(Logged(m, f.offset, f.ret, TRUE, FALSE),
                             f.offset, f.pKeys, f.ret.v, f.ret.t),
                        [v |-> f.ret.v, err |-> f.ret.err])

(* Decoder.any *)

\* -n: an int64 zero stays zero, a float64 zero becomes the negative zero
Negate(v) == IF v.k = "int64" THEN IntV(0 - v.n)
             ELSE IF v.m = 0 THEN [v EXCEPT !.neg = ~@]
             ELSE FloatV(0 - v.m, v.e)

AnyRet(m, v, t, err) == Return(m, [v |-> v, t |-> t, err |-> err])

Literal(m, need, rest, v, t, ctx) ==
    IF Remaining(m.sc) < need THEN AnyRet(m, NilV, "Unknown", mkError(m, "eof", ""))
    ELSE Goto([m EXCEPT !.stack = SetTop(@, [TopOf(m) EXCEPT
                  !.lit = rest, !.litv = v, !.litt = t, !.litctx = ctx])], "lit")

LitGot(m, c) ==
    LET f == TopOf(m) IN
    IF c # Head(f.lit)
    THEN AnyRet(m, NilV, "Unknown", mkError(m, "syntax", f.litctx))
    ELSE IF Len(f.lit) = 1 THEN AnyRet(m, f.litv, f.litt, NoErr)
    ELSE Goto([m EXCEPT !.stack = SetTop(@, [f EXCEPT !.lit = Tail(@)])], "lit")

NegGot(m, c) ==
    IF c < B.zero /\ c > B.nine
    THEN AnyRet(m, NilV, "Unknown", mkError(m, "syntax", "in negative numeric literal"))
    ELSE Call(m, "ret_neg", NumberF)

AnyStep(m) ==
    LET f == TopOf(m)
        c == Cur(m.sc)
    IN
    CASE f.pc = "start" ->
            IF c = B.quote THEN Call(m, "ret_string", StringF)
            ELSE IF IsDigit(c) THEN Call(m, "ret_number", NumberF)
            ELSE IF c = B.minus THEN Goto(m, "neg")
            ELSE IF c = B.f
                 THEN Literal(m, 4, <<B.a, B.l, B.s, B.e>>, BoolV(FALSE), "Boolean",
                              "in literal false")
            ELSE IF c = B.t
                 THEN Literal(m, 3, <<B.r, B.u, B.e>>, BoolV(TRUE), "Boolean",
                              "in literal true")
            ELSE IF c = B.n
                 THEN Literal(m, 3, <<B.u, B.l, B.l>>, NilV, "Null", "in literal null")
            ELSE IF c = B.lbrack THEN Call(m, "ret_array", ArrayF(f.pKeys))
            ELSE IF c = B.lbrace
                 THEN Call(m, "ret_object",
                           ObjectF(IF m.d.objectAsKVS THEN "objectOrdered" ELSE "object",
                                   f.pKeys))
            ELSE AnyRet(m, NilV, "Unknown",
                        mkError(m, "syntax", "looking for beginning of value"))
      [] f.pc = "neg" -> NextThen(m, NegGot)
      [] f.pc = "lit" -> NextThen(m, LitGot)
      [] f.pc = "ret_string" -> AnyRet(m, StrV(f.ret.s), "String", f.ret.err)
      [] f.pc = "ret_number" ->
            IF f.ret.err.kind # "nil" THEN AnyRet(m, NilV, "Unknown", f.ret.err)
            ELSE AnyRet(m, f.ret.v, "Number", NoErr)
      [] f.pc = "ret_neg" ->
            IF f.ret.err.kind # "nil" THEN AnyRet(m, NilV, "Unknown", f.ret.err)
            ELSE AnyRet(m, Negate(f.ret.v), "Number", NoErr)
      [] f.pc = "ret_array" -> AnyRet(m, f.ret.v, "Array", f.ret.err)
      [] f.pc = "ret_object" -> AnyRet(m, f.ret.v, "Object", f.ret.err)

(* Decoder.string *)

Top2(m, f) == [m EXCEPT !.stack = SetTop(@, f)]
Add(m, c) == [m EXCEPT !.d.scratch = ScratchAdd(@, c)]
AddRune(m, r) == [m EXCEPT !.d.scratch = ScratchAddRune(@, r)]
StrRet(m, str, err) == Return(m, [s |-> str, err |-> err])

StrScan(m, c) ==
    IF c = B.quote THEN StrRet(m, m.d.scratch, NoErr)
    ELSE IF c = B.bslash THEN Goto(m, "esc")
    ELSE IF c < 32 THEN StrRet(m, <<>>, mkError(m, "syntax", "in string literal"))
    ELSE Goto(Add(m, c), "rem")

StrEsc(m, c) ==
    IF c \in {B.quote, B.bslash, B.slash, B.apos} THEN Goto(Add(m, c), "next")
    ELSE IF c = B.u
         THEN Goto(Top2(m, [TopOf(m) EXCEPT !.h = 0, !.i = 0, !.second = FALSE]), "u4")
    ELSE IF c = B.b THEN Goto(Add(m, 8), "next")
    ELSE IF c = B.f THEN Goto(Add(m, 12), "next")
    ELSE IF c = B.n THEN Goto(Add(m, 10), "next")
    ELSE IF c = B.r THEN Goto(Add(m, 13), "next")
    ELSE IF c = B.t THEN Goto(Add(m, 9), "next")
    ELSE StrRet(m, <<>>, mkError(m, "syntax", "in string escape code"))

\* Decoder.u4: one hex digit, -1 for anything else
HexVal(c) == IF IsDigit(c) THEN c - B.zero
             ELSE IF c >= B.A /\ c <= B.F THEN c - B.A + 10
             ELSE IF c >= B.a /\ c <= B.f THEN c - B.a + 10
             ELSE 0 - 1

U4Got(m, c) ==
    LET f == TopOf(m)
        r == f.h * 16 + HexVal(c)
    IN
    IF HexVal(c) < 0
    THEN StrRet(m, <<>>, mkError(m, "syntax", "in unicode escape sequence"))
    ELSE IF f.i < 3 THEN Goto(Top2(m, [f EXCEPT !.h = r, !.i = @ + 1]), "u4")
    ELSE IF ~f.second THEN Goto(Top2(m, [f EXCEPT !.r = r]), "afterU")
    ELSE Goto(AddRune(m, DecodeRune(f.r, r)), "next")

AfterUGot(m, c) ==
    LET f == TopOf(m) IN
    IF ~IsSurrogate(f.r) \/ c # B.bslash THEN StrScan(AddRune(m, f.r), c)
    ELSE Goto(m, "afterU2")

AfterU2Got(m, c) ==
    LET f == TopOf(m) IN
    IF c # B.u THEN StrEsc(AddRune(m, f.r), c)
    ELSE Goto(Top2(m, [f EXCEPT !.h = 0, !.i = 0, !.second = TRUE]), "u4")

StringStep(m) ==
    LET f == TopOf(m) IN
    CASE f.pc = "open" -> NextThen([m EXCEPT !.d.scratch = <<>>], StrScan)
      [] f.pc = "rem" ->
            IF Remaining(m.sc) = 0
            THEN StrRet(m, <<>>, mkError(m, "syntax", "in string literal"))
            ELSE Goto(m, "next")
      [] f.pc = "next" -> NextThen(m, StrScan)
      [] f.pc = "esc" -> NextThen(m, StrEsc)
      [] f.pc = "u4" -> NextThen(m, U4Got)
      [] f.pc = "afterU" -> NextThen(m, AfterUGot)
      [] f.pc = "afterU2" -> NextThen(m, AfterU2Got)

(* Decoder.number *)

NumRet(m, v, err) == Return(m, [v |-> v, err |-> err])

\* d.Back(), then the conversion of the scratch text
NumFinish(m) ==
    LET m1 == Back(m)
        r  == IF TopOf(m).isFloat THEN ParseFloat(m.d.scratch) ELSE ParseInt(m.d.scratch)
    IN IF TopOf(m1).fn = "panic" THEN m1 ELSE NumRet(m1, r.v, r.err)

NumExpLoop(m, c) ==
    IF IsDigit(c) THEN Goto(Add(m, c), "exploop") ELSE NumFinish(m)

NumAfterFrac(m, c) ==
    IF c \in {B.e, B.E}
    THEN Goto(Top2(Add(m, c), [TopOf(m) EXCEPT !.isFloat = TRUE]), "exp1")
    ELSE NumFinish(m)

NumAfterInt(m, c) ==
    IF c = B.dot
    THEN Goto(Top2(Add(m, c), [TopOf(m) EXCEPT !.isFloat = TRUE]), "frac1")
    ELSE NumAfterFrac(m, c)

NumDigitsGot(m, c) ==
    IF IsDigit(c) THEN Goto(Add(m, c), "digits") ELSE NumAfterInt(m, c)

NumFrac1Got(m, c) ==
    IF c < B.zero /\ c > B.nine
    THEN NumRet(m, IntV(0), mkError(m, "syntax", "after decimal point in numeric literal"))
    ELSE Goto(Add(m, c), "frac_rem")

NumFracGot(m, c) ==
    IF c < B.zero \/ c > B.nine THEN NumAfterFrac(m, c)
    ELSE Goto(Add(m, c), "frac_rem")

NumExp1Got(m, c) ==
    IF c \in {B.plus, B.minus} THEN Goto(Add(m, c), "exp2") ELSE NumExpLoop(m, c)

NumExp2Got(m, c) ==
    IF c < B.zero \/ c > B.nine
    THEN NumRet(m, IntV(0), mkError(m, "syntax", "in exponent of numeric literal"))
    ELSE NumExpLoop(Add(m, c), c)

NumberStep(m) ==
    LET f == TopOf(m)
        c == Cur(m.sc)
        m0 == [m EXCEPT !.d.scratch = <<>>]
    IN
    CASE f.pc = "start" ->
            IF c = B.zero THEN Goto(Add(m0, c), "int0")
            ELSE IF c >= B.one /\ c <= B.nine THEN Goto(Add(m0, c), "digits")
            ELSE NumAfterInt(m0, c)
      [] f.pc = "int0" -> NextThen(m, NumAfterInt)
      [] f.pc = "digits" -> NextThen(m, NumDigitsGot)
      [] f.pc = "frac1" -> NextThen(m, NumFrac1Got)
      [] f.pc = "frac_rem" ->
            IF Remaining(m.sc) = 0 THEN NumRet(m, IntV(0), mkError(m, "eof", ""))
            ELSE Goto(m, "frac_next")
      [] f.pc = "frac_next" -> NextThen(m, NumFracGot)
      [] f.pc = "exp1" -> NextThen(m, NumExp1Got)
      [] f.pc = "exp2" -> NextThen(m, NumExp2Got)
      [] f.pc = "exploop" -> NextThen(m, NumExpLoop)

(* Decoder.array *)

\* an array that leaves without d.depth-- (C7 tells it from ArrOut)
ArrOutKeepsDepth(m, err) == Return(m, [v |-> ArrV(TopOf(m).array), err |-> err])

ArrOut(m, err) ==
    Return([m EXCEPT !.d.depth = @ - 1], [v |-> ArrV(TopOf(m).array), err |-> err])

ArrayStep(m) ==
    LET f == TopOf(m) IN
    CASE f.pc = "start" ->
            LET a == AppendKey(m.heap, f.pKeys, <<>>)
            IN Call([m EXCEPT !.d.depth = @ + 1, !.heap = a.heap,
                              !.stack = SetTop(@, [f EXCEPT !.parentKeys = a.sl])],
                    "first", SkipF)
      [] f.pc = "first" ->
            IF f.ret.c = B.rbrack THEN ArrOut(m, NoErr)
            ELSE Call(m, "elem", EmitAnyF(f.parentKeys))
      [] f.pc = "elem" ->
            IF f.ret.err.kind # "nil" THEN ArrOut(m, f.ret.err)
            ELSE IF m.d.depth > m.d.emitDepth
                 THEN Call(Top2(m, [f EXCEPT !.array = Append(@, f.ret.v)]), "sep", SkipF)
            ELSE Call(m, "sep", SkipF)
      [] f.pc = "sep" ->
            IF f.ret.c = B.comma THEN Call(m, "sep2", SkipF)
            ELSE IF f.ret.c = B.rbrack THEN ArrOut(m, NoErr)
            ELSE ArrOut(m, mkError(m, "syntax", "after array element"))
      [] f.pc = "sep2" -> Call(m, "elem", EmitAnyF(f.parentKeys))

(* Decoder.object and Decoder.objectOrdered *)

EmptyMap == [x \in {} |-> NilV]

\* obj[k] = v, or obj = append(obj, KV{k, v})
Insert(obj, key, v) ==
    IF obj.k = "map"
    THEN MapV(FALSE, [x \in DOMAIN obj.m \cup {key} |-> IF x = key THEN v ELSE obj.m[x]])
    ELSE KvsV(FALSE, Append(obj.kvs, [Key |-> key, Value |-> v]))

\* an object that leaves on an error without d.depth--
ObjOutErrKeepsDepth(m, err) ==
    Return([m EXCEPT !.d.depth = IF err.kind = "nil" THEN @ - 1 ELSE @],
           [v |-> TopOf(m).obj, err |-> err])

\* out: d.depth--; return obj, err
ObjOut(m, err) ==
    Return([m EXCEPT !.d.depth = @ - 1], [v |-> TopOf(m).obj, err |-> err])

ObjKey(m, c) ==
    LET f == [TopOf(m) EXCEPT !.offset = m.sc.Pos - 1] IN
    IF c # B.quote
    THEN ObjOut(Top2(m, f), mkError(m, "syntax", "looking for beginning of object key string"))
    ELSE Call(Top2(m, f), "key", StringF)

ObjMember(m, v) ==
    LET f == TopOf(m) IN
    IF ~f.obj.isnil THEN Call(Top2(m, [f EXCEPT !.obj = Insert(@, f.k, v)]), "sep", SkipF)
    ELSE Call(m, "sep", SkipF)

ObjectStep(m) ==
    LET f == TopOf(m) IN
    CASE f.pc = "start" ->
            LET alloc == m.d.depth + 1 > m.d.emitDepth
                obj == IF f.fn = "object" THEN MapV(~alloc, EmptyMap)
                       ELSE KvsV(~alloc, <<>>)
            IN Call([m EXCEPT !.d.depth = @ + 1,
                              !.stack = SetTop(@, [f EXCEPT !.obj = obj])],
                    "first", SkipF)
      [] f.pc = "first" ->
            IF f.ret.c = B.rbrace THEN ObjOut(m, NoErr) ELSE ObjKey(m, f.ret.c)
      [] f.pc = "key" ->
            IF f.ret.err.kind # "nil" THEN ObjOut(m, f.ret.err)
            ELSE Call(Top2(m, [f EXCEPT !.k = f.ret.s]), "colon", SkipF)
      [] f.pc = "colon" ->
            IF f.ret.c # B.colon THEN ObjOut(m, mkError(m, "syntax", "after object key"))
            ELSE Call(m, "val", SkipF)
      [] f.pc = "val" ->
            LET a == AppendKey(m.heap, f.pKeys, f.k)
                m1 == [m EXCEPT !.heap = a.heap,
                                !.stack = SetTop(@, [f EXCEPT !.keys = a.sl])]
            IN IF m.d.emitKV THEN Call(m1, "kv_any", AnyF(a.sl))
               ELSE Call(m1, "member", EmitAnyF(a.sl))
      [] f.pc = "kv_any" ->
            IF f.ret.err.kind # "nil"
            THEN ObjOut(Logged(m, f.offset, f.ret, FALSE, TRUE), f.ret.err)
            ELSE IF ~willEmit(m.d)
            THEN ObjMember(Logged(m, f.offset, f.ret, FALSE, TRUE), f.ret.v)
            ELSE IF Len(m.ch.buf) >= MetaChCap THEN Wait(m)
            ELSE ObjMember(Send(Logged(m, f.offset, f.ret, TRUE, TRUE),
                                f.offset, f.keys, KVv(f.k, f.ret.v), f.ret.t),
                           f.ret.v)
      [] f.pc = "member" ->
            IF f.ret.err.kind # "nil" THEN ObjOut(m, f.ret.err)
            ELSE ObjMember(m, f.ret.v)
      [] f.pc = "sep" ->
            IF f.ret.c = B.rbrace THEN ObjOut(m, NoErr)
            ELSE IF f.ret.c = B.comma THEN Call(m, "nextkey", SkipF)
            ELSE ObjOut(m, mkError(m, "syntax", "after object key:value pair"))
      [] f.pc = "nextkey" -> ObjKey(m, f.ret.c)

----------------------------------------------------------------------------
(* Inputs: documents as trees, rendered to the bytes the reader delivers *)

TI(n) == [k |-> "int", n |-> n]
TF(m, e) == [k |-> "float", m |-> m, e |-> e]
\* m e x, a float written with an exponent
TE(m, x) == [k |-> "exp", m |-> m, x |-> x]
TS(s) == [k |-> "str", s |-> s]
TB(b) == [k |-> "bool", b |-> b]
TN == [k |-> "null"]
TA(items) == [k |-> "arr", items |-> items]
TO(members) == [k |-> "obj", members |-> members]
Mem(key, v) == [Key |-> key, Value |-> v]
\* bytes that are no rendering of a value
TR(bytes) == [k |-> "raw", s |-> bytes]

\* m * 10^e, e < 0, written with a decimal point
FloatText(m, e) ==
    LET ds == DigitsOf(m)
        p  == ZeroRun((1 - e) - Len(ds)) \o ds
    IN SubSeq(p, 1, Len(p) + e) \o <<B.dot>> \o SubSeq(p, Len(p) + e + 1, Len(p))

RECURSIVE Render(_)
RECURSIVE RenderItems(_)
RECURSIVE RenderMembers(_)
Render(t) ==
    CASE t.k = "int" -> IF t.n < 0 THEN <<B.minus>> \o DigitsOf(0 - t.n) ELSE DigitsOf(t.n)
      [] t.k = "float" -> IF t.m < 0 THEN <<B.minus>> \o FloatText(0 - t.m, t.e)
                          ELSE FloatText(t.m, t.e)
      [] t.k = "str" -> <<B.quote>> \o t.s \o <<B.quote>>
      [] t.k = "bool" -> IF t.b THEN <<B.t, B.r, B.u, B.e>> ELSE <<B.f, B.a, B.l, B.s, B.e>>
      [] t.k = "null" -> <<B.n, B.u, B.l, B.l>>
      [] t.k = "arr" -> <<B.lbrack>> \o RenderItems(t.items) \o <<B.rbrack>>
      [] t.k = "obj" -> <<B.lbrace>> \o RenderMembers(t.members) \o <<B.rbrace>>
      [] t.k = "raw" -> t.s
      [] t.k = "exp" -> DigitsOf(t.m) \o <<B.e>> \o DigitsOf(t.x)
RenderItems(items) ==
    IF items = <<>> THEN <<>>
    ELSE Render(Head(items))
         \o (IF Len(items) > 1 THEN <<B.comma>> \o RenderItems(Tail(items)) ELSE <<>>)
RenderMembers(ms) ==
    IF ms = <<>> THEN <<>>
    ELSE <<B.quote>> \o Head(ms).Key \o <<B.quote, B.colon>> \o Render(Head(ms).Value)
         \o (IF Len(ms) > 1 THEN <<B.comma>> \o RenderMembers(Tail(ms)) ELSE <<>>)

RECURSIVE RenderDocs(_, _)
\* the top-level values, one after the other, sep between two of them
RenderDocs(ts, sep) ==
    IF ts = <<>> THEN <<>>
    ELSE Render(Head(ts))
         \o (IF Len(ts) > 1 THEN sep \o RenderDocs(Tail(ts), sep) ELSE <<>>)

----------------------------------------------------------------------------
(* Serialization: KVS.MarshalJSON and encoding/json.Marshal of the values a
   KVS holds. A result is [ok, bytes]; ok is false when an error is returned. *)

HexLow(n) == IF n < 10 THEN B.zero + n ELSE B.a + (n - 10)

\* encoding/json: one ASCII byte of a string, HTML escaping on (the short
\* escapes \b and \f are those of encoding/json since Go 1.22)
JsonStringByte(c) ==
    IF c = B.quote \/ c = B.bslash THEN <<B.bslash, c>>
    ELSE IF c = 8 THEN <<B.bslash, B.b>>
    ELSE IF c = 12 THEN <<B.bslash, B.f>>
    ELSE IF c = B.nl THEN <<B.bslash, B.n>>
    ELSE IF c = B.cr THEN <<B.bslash, B.r>>
    ELSE IF c = B.tab THEN <<B.bslash, B.t>>
    ELSE IF c < 32 \/ c \in {38, 60, 62}
         THEN <<B.bslash, B.u, B.zero, B.zero, HexLow(c \div 16), HexLow(c % 16)>>
    ELSE <<c>>

IsCont(c) == c >= 128 /\ c <= 191

\* utf8.DecodeRuneInString: the length of the well-formed encoding s starts
\* with, 0 when it starts with none
Utf8Len(s) ==
    LET c == s[1]
        lo == IF c = 224 THEN 160 ELSE IF c = 240 THEN 144 ELSE 128
        hi == IF c = 237 THEN 159 ELSE IF c = 244 THEN 143 ELSE 191
        n == IF c >= 194 /\ c <= 223 THEN 2
             ELSE IF c >= 224 /\ c <= 239 THEN 3
             ELSE IF c >= 240 /\ c <= 244 THEN 4 ELSE 0
    IN IF c < 128 THEN 1
       ELSE IF n = 0 \/ Len(s) < n THEN 0
       ELSE IF s[2] < lo \/ s[2] > hi THEN 0
       ELSE IF \A i \in 3..n : IsCont(s[i]) THEN n ELSE 0

IsLineSep(s) == Len(s) >= 3 /\ s[1] = 226 /\ s[2] = 128 /\ s[3] \in {168, 169}

RECURSIVE JsonString(_)
\* encoding/json: the text of a string between its quotes. A byte that starts
\* no well-formed UTF-8 is written \ufffd, U+2028 and U+2029 are escaped
JsonString(s) ==
    IF s = <<>> THEN <<>>
    ELSE IF s[1] < 128 THEN JsonStringByte(s[1]) \o JsonString(Tail(s))
    ELSE IF Utf8Len(s) = 0
         THEN <<B.bslash, B.u, B.f, B.f, B.f, B.a + 3>> \o JsonString(Tail(s))
    ELSE IF IsLineSep(s)
         THEN <<B.bslash, B.u, B.zero + 2, B.zero, B.zero + 2, HexLow(s[3] % 16)>>
              \o JsonString(SubSeq(s, 4, Len(s)))
    ELSE SubSeq(s, 1, Utf8Len(s)) \o JsonString(SubSeq(s, Utf8Len(s) + 1, Len(s)))

\* encoding/json: a float64 with the fewest digits, in format 'f', or in
\* format 'e' below 1e-6 and from 1e21 on, where e-0X is shortened to e-X
JsonFloat(v) ==
    LET a  == IF v.m < 0 THEN 0 - v.m ELSE v.m
        ds == DigitsOf(a)
        x  == Len(ds) + v.e - 1
        t  == IF a = 0 THEN <<B.zero>>
              ELSE IF x < 0 - 6 \/ x >= 21
              THEN <<ds[1]>> \o (IF Len(ds) > 1 THEN <<B.dot>> \o Tail(ds) ELSE <<>>)
                   \o <<B.e>> \o (IF x < 0 THEN <<B.minus>> \o DigitsOf(0 - x)
                                  ELSE <<B.plus>> \o DigitsOf(x))
              ELSE IF v.e >= 0 THEN ds \o ZeroRun(v.e)
              ELSE FloatText(a, v.e)
    IN IF v.neg THEN <<B.minus>> \o t ELSE t

IsWs(c) == c \in {B.sp, B.tab, B.cr, B.nl}

RECURSIVE Ws(_, _)
\* the index of the first byte from i on that is no white space (0 stays 0)
Ws(s, i) == IF i >= 1 /\ i <= Len(s) /\ IsWs(s[i]) THEN Ws(s, i + 1) ELSE i

RECURSIVE VString(_, _)
\* encoding/json scanner, inside a string from index i on: the index after its
\* closing quote, 0 when the text is not accepted
VString(s, i) ==
    IF i > Len(s) \/ s[i] < 32 THEN 0
    ELSE IF s[i] = B.quote THEN i + 1
    ELSE IF s[i] # B.bslash THEN VString(s, i + 1)
    ELSE IF i + 1 > Len(s) THEN 0
    ELSE IF s[i + 1] \in {B.quote, B.bslash, B.slash, B.b, B.f, B.n, B.r, B.t}
         THEN VString(s, i + 2)
    ELSE IF s[i + 1] = B.u /\ i + 5 <= Len(s) /\ \A j \in (i + 2)..(i + 5) : HexVal(s[j]) >= 0
         THEN VString(s, i + 6)
    ELSE 0

\* an exponent from index i on, if there is one: [eE] [+-]? [0-9]+
VExp(s, i) ==
    IF ~(i <= Len(s) /\ s[i] \in {B.e, B.E}) THEN i
    ELSE IF i + 1 <= Len(s) /\ s[i + 1] \in {B.plus, B.minus}
         THEN IF DigitRun(s, i + 2) = 0 THEN 0 ELSE i + 2 + DigitRun(s, i + 2)
    ELSE IF DigitRun(s, i + 1) = 0 THEN 0 ELSE i + 1 + DigitRun(s, i + 1)
\* a fraction from index i on, if there is one, and the exponent: . [0-9]+
VFrac(s, i) ==
    IF ~(i <= Len(s) /\ s[i] = B.dot) THEN VExp(s, i)
    ELSE IF DigitRun(s, i + 1) = 0 THEN 0
    ELSE VExp(s, i + 1 + DigitRun(s, i + 1))
\* the digits before the fraction, from index i on: 0 | [1-9][0-9]*
VInt(s, i) ==
    IF i > Len(s) \/ ~IsDigit(s[i]) THEN 0
    ELSE IF s[i] = B.zero THEN VFrac(s, i + 1)
    ELSE VFrac(s, i + DigitRun(s, i))
\* a number from index i on: -? (0 | [1-9][0-9]*) (. [0-9]+)? ([eE] [+-]? [0-9]+)?
VNumber(s, i) == IF s[i] = B.minus THEN VInt(s, i + 1) ELSE VInt(s, i)

Starts(s, i, word) == i + Len(word) - 1 <= Len(s) /\ SubSeq(s, i, i + Len(word) - 1) = word

RECURSIVE VValue(_, _)
RECURSIVE VItems(_, _)
RECURSIVE VMembers(_, _)
RECURSIVE AfterItem(_, _)
RECURSIVE AfterKey(_, _)
RECURSIVE AfterMember(_, _)
\* a value from index i on (no white space before it): the index after it, or 0
VValue(s, i) ==
    IF i < 1 \/ i > Len(s) THEN 0
    ELSE IF s[i] = B.quote THEN VString(s, i + 1)
    ELSE IF s[i] = B.minus \/ IsDigit(s[i]) THEN VNumber(s, i)
    ELSE IF Starts(s, i, <<B.t, B.r, B.u, B.e>>) THEN i + 4
    ELSE IF Starts(s, i, <<B.f, B.a, B.l, B.s, B.e>>) THEN i + 5
    ELSE IF Starts(s, i, <<B.n, B.u, B.l, B.l>>) THEN i + 4
    ELSE IF s[i] = B.lbrack
         THEN LET j == Ws(s, i + 1)
              IN IF j <= Len(s) /\ s[j] = B.rbrack THEN j + 1 ELSE VItems(s, j)
    ELSE IF s[i] = B.lbrace
         THEN LET j == Ws(s, i + 1)
              IN IF j <= Len(s) /\ s[j] = B.rbrace THEN j + 1 ELSE VMembers(s, j)
    ELSE 0
\* the elements of an array from the one at i on, and the closing bracket
VItems(s, i) == AfterItem(s, Ws(s, VValue(s, i)))
\* after an element that ended before k (0: not accepted)
AfterItem(s, k) ==
    IF k = 0 \/ k > Len(s) THEN 0
    ELSE IF s[k] = B.rbrack THEN k + 1
    ELSE IF s[k] = B.comma THEN VItems(s, Ws(s, k + 1))
    ELSE 0
\* the members of an object from the one at i on, and the closing brace
VMembers(s, i) ==
    IF i <= Len(s) /\ s[i] = B.quote THEN AfterKey(s, Ws(s, VString(s, i + 1))) ELSE 0
\* after a key that ended before c: the colon and the value
AfterKey(s, c) ==
    IF c = 0 \/ c > Len(s) \/ s[c] # B.colon THEN 0
    ELSE AfterMember(s, Ws(s, VValue(s, Ws(s, c + 1))))
\* after a member that ended before k
AfterMember(s, k) ==
    IF k = 0 \/ k > Len(s) THEN 0
    ELSE IF s[k] = B.rbrace THEN k + 1
    ELSE IF s[k] = B.comma THEN VMembers(s, Ws(s, k + 1))
    ELSE 0

\* encoding/json checks what a Marshaler returned: one JSON value, white
\* space around it allowed
ValidJSON(s) ==
    LET j == VValue(s, Ws(s, 1)) IN j # 0 /\ Ws(s, j) = Len(s) + 1

RECURSIVE CompactFrom(_, _, _)
\* encoding/json compact with HTML escaping, on accepted text: white space
\* outside strings is dropped, <, >, & and U+2028, U+2029 are escaped
CompactFrom(s, inStr, esc) ==
    IF s = <<>> THEN <<>>
    ELSE LET c == s[1] IN
         IF ~inStr /\ IsWs(c) THEN CompactFrom(Tail(s), inStr, FALSE)
         ELSE IF c \in {38, 60, 62}
              THEN <<B.bslash, B.u, B.zero, B.zero, HexLow(c \div 16), HexLow(c % 16)>>
                   \o CompactFrom(Tail(s), inStr, FALSE)
         ELSE IF IsLineSep(s)
              THEN <<B.bslash, B.u, B.zero + 2, B.zero, B.zero + 2, HexLow(s[3] % 16)>>
                   \o CompactFrom(SubSeq(s, 4, Len(s)), inStr, FALSE)
         ELSE <<c>> \o CompactFrom(Tail(s),
                                   IF c = B.quote /\ ~esc THEN ~inStr ELSE inStr,
                                   inStr /\ ~esc /\ c = B.bslash)

RECURSIVE JsonMarshal(_)
RECURSIVE MarshalJSON(_)
RECURSIVE MarshalItems(_)
RECURSIVE MarshalMembers(_)

\* json.Marshal(v) for the values any() puts into a KVS (with ObjectAsKVS
\* every object is a KVS); a KVS is a Marshaler, whose output json.Marshal
\* checks before copying it
JsonMarshal(v) ==
    CASE v.k = "nil" -> [ok |-> TRUE, bytes |-> <<B.n, B.u, B.l, B.l>>]
      [] v.k = "bool" -> [ok |-> TRUE,
                          bytes |-> IF v.b THEN <<B.t, B.r, B.u, B.e>>
                                    ELSE <<B.f, B.a, B.l, B.s, B.e>>]
      [] v.k = "int64" -> [ok |-> TRUE,
                           bytes |-> IF v.n < 0 THEN <<B.minus>> \o DigitsOf(0 - v.n)
                                     ELSE DigitsOf(v.n)]
      [] v.k = "float64" -> [ok |-> TRUE, bytes |-> JsonFloat(v)]
      [] v.k = "string" -> [ok |-> TRUE, bytes |-> <<B.quote>> \o JsonString(v.s) \o <<B.quote>>]
      [] v.k = "slice" -> LET r == MarshalItems(v.items)
                          IN [ok |-> r.ok, bytes |-> <<B.lbrack>> \o r.bytes \o <<B.rbrack>>]
      [] v.k = "KVS" -> LET r == MarshalJSON(v)
                        IN [ok |-> r.ok /\ ValidJSON(r.bytes),
                            bytes |-> CompactFrom(r.bytes, FALSE, FALSE)]

MarshalItems(items) ==
    IF items = <<>> THEN [ok |-> TRUE, bytes |-> <<>>]
    ELSE LET h == JsonMarshal(Head(items))
             r == MarshalItems(Tail(items))
         IN [ok |-> h.ok /\ r.ok,
             bytes |-> h.bytes \o (IF Len(items) > 1 THEN <<B.comma>> ELSE <<>>) \o r.bytes]

\* the loop of KVS.MarshalJSON: "key": value, a comma after all but the last
MarshalMembers(kvs) ==
    IF kvs = <<>> THEN [ok |-> TRUE, bytes |-> <<>>]
    ELSE LET h == JsonMarshal(Head(kvs).Value)
             r == MarshalMembers(Tail(kvs))
         IN [ok |-> h.ok /\ r.ok,
             bytes |-> <<B.quote>> \o Head(kvs).Key \o <<B.quote, B.colon>> \o h.bytes
                       \o (IF Len(kvs) > 1 THEN <<B.comma>> ELSE <<>>) \o r.bytes]

\* KVS.MarshalJSON
MarshalJSON(v) ==
    LET r == MarshalMembers(v.kvs)
    IN [ok |-> r.ok, bytes |-> <<B.lbrace>> \o r.bytes \o <<B.rbrace>>]


----------------------------------------------------------------------------
ka == <<B.a>>
kb == <<B.b>>

Scalars == {TI(1), TI(12), TS(ka), TB(TRUE), TN, TF(25, 0 - 1), TI(0 - 7), TE(1, 2)}

Shallow ==
    { TA(<<>>), TA(<<TI(1), TI(2)>>), TO(<<>>),
      TO(<<Mem(ka, TI(1)), Mem(kb, TI(2))>>),
      TA(<<TO(<<Mem(ka, TA(<<TI(1)>>))>>), TI(2)>>),
      TO(<<Mem(ka, TO(<<Mem(kb, TI(1))>>)), Mem(kb, TA(<<TI(2)>>))>>),
      TA(<<TI(0 - 1), TF(0 - 25, 0 - 1)>>) }

\* two members at depth 4
Deep == TA(<<TA(<<TA(<<TO(<<Mem(ka, TI(1)), Mem(kb, TI(2))>>)>>)>>)>>)

\* [1,2,3,4,5,6]
Long == TA(<<TI(1), TI(2), TI(3), TI(4), TI(5), TI(6)>>)

\* documents of two or three top-level values
Multi ==
    { <<t1, t2>> : t1 \in {TI(1), TA(<<>>), TO(<<>>)}, t2 \in {TI(2), TB(TRUE), TA(<<TI(1)>>)} }
    \cup { <<TI(1), TS(ka), TI(2)>> }

\* -.5  -e1  1.e5
OddNumbers == { <<B.minus, B.dot, B.zero + 5>>, <<B.minus, B.e, B.one>>,
                <<B.one, B.dot, B.e, B.zero + 5>> }

\* \uXXXX, the escape of one 16-bit code unit
HexDigit(n) == IF n < 10 THEN B.zero + n ELSE B.A + (n - 10)
UEsc(u) == <<B.bslash, B.u, HexDigit(u \div 4096), HexDigit((u \div 256) % 16),
             HexDigit((u \div 16) % 16), HexDigit(u % 16)>>

\* "\uD834\uDCB2"
SurrogatePair == <<B.quote>> \o UEsc(13 * 4096 + 8 * 256 + 3 * 16 + 4)
                 \o UEsc(13 * 4096 + 12 * 256 + 11 * 16 + 2) \o <<B.quote>>

\* {"a\"b":1}  {"a\\b":1}  {"a":1.0}  {"a":"b","b":[2.5,null]}
\* {"a":-0.0}  {"b":{"a\":1,\"b":2}}
Ordered ==
    { TR(<<B.lbrace, B.quote, B.a, B.quote, B.colon, B.minus, B.zero, B.dot, B.zero, B.rbrace>>),
      TR(<<B.lbrace, B.quote, B.b, B.quote, B.colon,
           B.lbrace, B.quote, B.a, B.bslash, B.quote, B.colon, B.one, B.comma, B.bslash, B.quote,
           B.b, B.quote, B.colon, B.zero + 2, B.rbrace, B.rbrace>>),
      TR(<<B.lbrace, B.quote, B.a, B.bslash, B.quote, B.b, B.quote, B.colon, B.one, B.rbrace>>),
      TR(<<B.lbrace, B.quote, B.a, B.bslash, B.bslash, B.b, B.quote, B.colon, B.one, B.rbrace>>),
      TO(<<Mem(ka, TF(10, 0 - 1))>>),
      TO(<<Mem(ka, TS(kb)), Mem(kb, TA(<<TF(25, 0 - 1), TN>>))>>) }

\* 1e999  2470329e-30
EdgeFloats == { <<B.one, B.e, B.nine, B.nine, B.nine>>,
                <<B.zero + 2, B.zero + 4, B.zero + 7, B.zero, B.zero + 3, B.zero + 2, B.nine,
                  B.e, B.minus, B.zero + 3, B.zero>> }

Flags == [recursive : BOOLEAN, kv : BOOLEAN, kvs : BOOLEAN]
Opt(e, fl) == [emitDepth |-> e, recursive |-> fl.recursive, kv |-> fl.kv, kvs |-> fl.kvs]
Plain == [recursive |-> FALSE, kv |-> FALSE, kvs |-> FALSE]

\* how often the reader may return fewer bytes than asked for and available
MaxShort == 1

\* a case: the documents, what separates and follows them, how many bytes of
\* the text the reader delivers before end-of-input (cut), which byte of it is
\* replaced by an 'x' (bad, 0 for none), the arguments of NewDecoder and the
\* options called, and the reader's short reads
Case(ds, sep, tr, cut, bad, o, short) ==
    [ds |-> ds, sep |-> sep, tr |-> tr, cut |-> cut, bad |-> bad, o |-> o, short |-> short]

TextOf(ds, sep, tr) == RenderDocs(ds, sep) \o tr
Whole(ds, sep, tr) == Len(TextOf(ds, sep, tr))

Cases ==
    \* top-level scalars, with and without a trailing newline
    { Case(<<t>>, <<B.sp>>, tr, Whole(<<t>>, <<B.sp>>, tr), 0, Opt(e, [Plain EXCEPT !.recursive = r]), 0) :
        t \in Scalars, tr \in {<<>>, <<B.nl>>}, e \in (0 - 1)..1, r \in BOOLEAN }
    \* concatenated documents, space- or newline-separated
    \cup { Case(ds, sp[1], sp[2], Whole(ds, sp[1], sp[2]), 0, Opt(e, Plain), 0) :
        ds \in Multi, sp \in {<<<<B.sp>>, <<>>>>, <<<<B.nl>>, <<B.nl>>>>}, e \in 0..1 }
    \* arrays and objects, every option at every depth
    \cup { Case(<<t>>, <<B.sp>>, <<>>, Whole(<<t>>, <<B.sp>>, <<>>), 0, Opt(e, fl), 0) :
        t \in Shallow, e \in (0 - 1)..3, fl \in Flags }
    \cup { Case(<<Deep>>, <<B.sp>>, <<>>, Whole(<<Deep>>, <<B.sp>>, <<>>), 0, Opt(e, fl), 0) :
        e \in {0 - 1, 3, 4}, fl \in Flags }
    \* a reader that splits the input
    \cup { Case(ds, <<B.sp>>, <<>>, Whole(ds, <<B.sp>>, <<>>), 0, Opt(e, Plain), MaxShort) :
        ds \in { <<TI(12)>>, <<TI(1), TI(2)>>, <<TA(<<TI(1), TI(2)>>)>>,
                 <<TO(<<Mem(ka, TI(1)), Mem(kb, TI(2))>>)>> }, e \in 0..1 }
    \* input that ends early
    \cup { Case(<<t>>, <<B.sp>>, <<>>, cut, 0, Opt(e, fl), 0) :
        t \in { TB(TRUE), TS(ka), TF(25, 0 - 1), TA(<<TI(1), TI(2)>>),
                TO(<<Mem(ka, TI(1)), Mem(kb, TI(2))>>) },
        cut \in 1..12, e \in 0..1,
        fl \in {Plain, [Plain EXCEPT !.kv = TRUE], [Plain EXCEPT !.recursive = TRUE]} }
    \* input with a byte that does not belong
    \cup { Case(<<t>>, <<B.sp>>, <<>>, Whole(<<t>>, <<B.sp>>, <<>>), bad, Opt(e, fl), 0) :
        t \in { TB(TRUE), TA(<<TI(1), TI(2)>>),
                TO(<<Mem(ka, TI(1)), Mem(kb, TI(2))>>) },
        bad \in 1..9, e \in 0..1,
        fl \in {Plain, [Plain EXCEPT !.kv = TRUE], [Plain EXCEPT !.recursive = TRUE]} }
    \* number literals outside the grammar
    \cup { Case(<<TR(bs)>>, <<B.sp>>, tr, Len(bs) + Len(tr), 0, Opt(0, Plain), 0) :
        bs \in OddNumbers, tr \in {<<>>, <<B.sp>>} }
    \* ordered objects to serialize and decode again
    \cup { Case(<<t>>, <<B.sp>>, <<>>, Whole(<<t>>, <<B.sp>>, <<>>), 0,
                Opt(0, [Plain EXCEPT !.kvs = TRUE]), 0) : t \in Ordered }
    \* more values than the emission channel holds
    \cup { Case(<<Long>>, <<B.sp>>, <<>>, Whole(<<Long>>, <<B.sp>>, <<>>), 0, Opt(1, Plain), 0) }
    \* a float beyond the range of float64, and one below its normal range
    \cup { Case(<<TR(bs)>>, <<B.sp>>, tr, Len(bs) + Len(tr), 0, Opt(0, Plain), 0) :
        bs \in EdgeFloats, tr \in {<<>>, <<B.sp>>} }
    \* a string written with escapes
    \cup { Case(<<TR(SurrogatePair)>>, <<B.sp>>, tr, Len(SurrogatePair) + Len(tr), 0,
                Opt(0, Plain), 0) : tr \in {<<>>, <<B.nl>>} }

\* NewDecoder, then ObjectAsKVS, EmitKV, Recursive as the options say
NewDecoder(o) ==
    [emitDepth |-> IF o.emitDepth < 0 THEN 0 ELSE o.emitDepth,
     emitRecursive |-> o.emitDepth < 0 \/ o.recursive,
     emitKV |-> o.kv, objectAsKVS |-> o.kvs,
     depth |-> 0, scratch |-> <<>>, err |-> NoErr, lineNo |-> 0, lineStart |-> 0]

\* scanner.New: the goroutine has taken the initial fill request
NewScanner ==
    [Pos |-> 0, End |-> maxInt, ipos |-> 0, ifill |-> 0,
     buf |-> [i \in 0..chunk |-> 0], np |-> "idle"]

Init ==
    \E c \in Cases :
        LET text == TextOf(c.ds, c.sep, c.tr) IN
        /\ c.cut <= Len(text) /\ c.bad <= c.cut
        /\ input = [i \in 1..c.cut |-> IF i = c.bad THEN B.x ELSE text[i]]
        /\ docs = IF c.cut = Len(text) /\ c.bad = 0 /\ \A i \in DOMAIN c.ds : c.ds[i].k # "raw"
                  THEN c.ds ELSE <<>>
        /\ opts = c.o
        /\ orig = <<>>
        /\ sc = NewScanner
        /\ nbuf = [i \in 0..(chunk - 1) |-> 0]
        /\ w = [pc |-> "read", rpos |-> 0, n |-> 0, off |-> 0, short |-> c.short]
        /\ fillReady = "open"
        /\ d = NewDecoder(c.o)
        /\ stack = <<DecodeF>>
        /\ heap = <<>>
        /\ metaCh = [buf |-> <<>>, closed |-> FALSE]
        /\ recvd = <<>>
        /\ log = <<>>
        /\ lastNext = [adv |-> FALSE, c |-> 0, pos |-> 0]

----------------------------------------------------------------------------
(* The prefetch goroutine of scanner.New, and the channel hand-overs *)

\* r.Read(sr.nbuf[:]) is entered
WorkerReadBegin ==
    /\ w.pc = "read"
    /\ w' = [w EXCEPT !.pc = "reading"]
    /\ UNCHANGED <<input, docs, opts, orig, sc, nbuf, fillReady, d, stack, heap, metaCh, recvd, log, lastNext>>

\* a goroutine that reads again after a successful Read, without a handoff
WorkerReadAgain ==
    /\ w.pc = "reading"
    /\ \/ \E k \in 1..chunk :
            LET n == IF k < Len(input) - w.off THEN k ELSE Len(input) - w.off IN
            /\ n > 0
            /\ (k < chunk /\ k < Len(input) - w.off => w.short > 0)
            /\ nbuf' = [i \in 0..(chunk - 1) |-> IF i < n THEN input[w.off + i + 1] ELSE nbuf[i]]
            /\ w' = [w EXCEPT !.pc = "read", !.n = n, !.rpos = @ + n, !.off = @ + n,
                             !.short = IF k < chunk /\ k < Len(input) - w.off THEN @ - 1 ELSE @]
       \/ /\ w.off = Len(input)
          /\ w' = [w EXCEPT !.pc = "eof", !.n = 0]
          /\ nbuf' = nbuf
    /\ UNCHANGED <<input, docs, opts, orig, sc, fillReady, d, stack, heap, metaCh, recvd, log, lastNext>>

\* r.Read returns: some bytes, (0, nil), or (0, io.EOF)
WorkerRead ==
    /\ w.pc = "reading"
    /\ \/ \E k \in 1..chunk :
            LET n == IF k < Len(input) - w.off THEN k ELSE Len(input) - w.off IN
            /\ n > 0
            /\ (k < chunk /\ k < Len(input) - w.off => w.short > 0)
            /\ nbuf' = [i \in 0..(chunk - 1) |-> IF i < n THEN input[w.off + i + 1] ELSE nbuf[i]]
            /\ w' = [w EXCEPT !.pc = "send", !.n = n, !.rpos = @ + n, !.off = @ + n,
                             !.short = IF k < chunk /\ k < Len(input) - w.off THEN @ - 1 ELSE @]
       \/ /\ w.off < Len(input)          \* (0, nil): goto scan
          /\ w' = [w EXCEPT !.pc = "read"]
          /\ nbuf' = nbuf
       \/ /\ w.off = Len(input)
          /\ w' = [w EXCEPT !.pc = "eof", !.n = 0]
          /\ nbuf' = nbuf
    /\ UNCHANGED <<input, docs, opts, orig, sc, fillReady, d, stack, heap, metaCh, recvd, log, lastNext>>

\* atomic.StoreInt64(&sr.End, rpos)
WorkerStoreEnd ==
    /\ w.pc = "eof"
    /\ sc' = [sc EXCEPT !.End = w.rpos]
    /\ w' = [w EXCEPT !.pc = "close"]
    /\ UNCHANGED <<input, docs, opts, orig, nbuf, fillReady, d, stack, heap, metaCh, recvd, log, lastNext>>

\* a goroutine that returns without close(sr.fillReady) (C3 tells it from WorkerClose)
WorkerReturnsOpen ==
    /\ w.pc = "close"
    /\ w' = [w EXCEPT !.pc = "done"]
    /\ UNCHANGED <<input, docs, opts, orig, sc, nbuf, fillReady, d, stack, heap, metaCh, recvd, log, lastNext>>

\* close(sr.fillReady); return
WorkerClose ==
    /\ w.pc = "close"
    /\ fillReady' = "closed"
    /\ w' = [w EXCEPT !.pc = "done"]
    /\ UNCHANGED <<input, docs, opts, orig, sc, nbuf, d, stack, heap, metaCh, recvd, log, lastNext>>

\* a goroutine that reads on after its send, without a fill request
FillReadyReadsOn ==
    /\ w.pc = "send"
    /\ sc.np = "recv"
    /\ sc' = [sc EXCEPT !.ifill = w.n, !.np = "copy"]
    /\ w' = [w EXCEPT !.pc = "read"]
    /\ UNCHANGED <<input, docs, opts, orig, nbuf, fillReady, d, stack, heap, metaCh, recvd, log, lastNext>>

\* sr.fillReady <- int64(n) meets s.ifill = <-s.fillReady
FillReady ==
    /\ w.pc = "send"
    /\ sc.np = "recv"
    /\ sc' = [sc EXCEPT !.ifill = w.n, !.np = "copy"]
    /\ w' = [w EXCEPT !.pc = "wait"]
    /\ UNCHANGED <<input, docs, opts, orig, nbuf, fillReady, d, stack, heap, metaCh, recvd, log, lastNext>>

\* s.ifill = <-s.fillReady on the closed channel: the zero value
FillReadyClosed ==
    /\ fillReady = "closed"
    /\ sc.np = "recv"
    /\ sc' = [sc EXCEPT !.ifill = 0, !.np = "copy"]
    /\ UNCHANGED <<input, docs, opts, orig, nbuf, w, fillReady, d, stack, heap, metaCh, recvd, log, lastNext>>

\* Scanner.Next: the lookback byte, the copy of nbuf, ipos = 1, and whether to ask again
NextCopy ==
    /\ sc.np = "copy"
    /\ sc' = [sc EXCEPT !.buf = [i \in 0..chunk |-> IF i = 0 THEN sc.buf[chunk] ELSE nbuf[i - 1]],
                        !.ipos = 1,
                        !.np = IF sc.End = maxInt THEN "send" ELSE "ret"]
    /\ UNCHANGED <<input, docs, opts, orig, nbuf, w, fillReady, d, stack, heap, metaCh, recvd, log, lastNext>>

\* s.fillReq <- struct{}{} meets the goroutine's range over sr.fillReq
FillReq ==
    /\ sc.np = "send"
    /\ w.pc = "wait"
    /\ sc' = [sc EXCEPT !.np = "ret"]
    /\ w' = [w EXCEPT !.pc = "read"]
    /\ UNCHANGED <<input, docs, opts, orig, nbuf, fillReady, d, stack, heap, metaCh, recvd, log, lastNext>>

----------------------------------------------------------------------------
(* The decode goroutine: one action per function of the parser *)

Apply(m) ==
    /\ m.ok
    /\ sc' = m.sc
    /\ d' = m.d
    /\ stack' = m.stack
    /\ heap' = m.heap
    /\ metaCh' = m.ch
    /\ log' = m.log
    /\ lastNext' = m.last
    /\ UNCHANGED <<input, docs, opts, orig, nbuf, w, fillReady, recvd>>

Running(fn) == stack[Len(stack)].fn = fn /\ sc.np \in {"idle", "ret"}

decode == Running("decode") /\ \E m \in {DecodeStep(Machine)} : Apply(m)
skipSpaces == Running("skipSpaces") /\ \E m \in {SkipStep(Machine)} : Apply(m)
emitAny == Running("emitAny") /\ \E m \in {EmitAnyStep(Machine)} : Apply(m)
any == Running("any") /\ \E m \in {AnyStep(Machine)} : Apply(m)
string == Running("string") /\ \E m \in {StringStep(Machine)} : Apply(m)
number == Running("number") /\ \E m \in {NumberStep(Machine)} : Apply(m)
array == Running("array") /\ \E m \in {ArrayStep(Machine)} : Apply(m)
object == Running("object") /\ \E m \in {ObjectStep(Machine)} : Apply(m)
objectOrdered == Running("objectOrdered") /\ \E m \in {ObjectStep(Machine)} : Apply(m)

\* a consumer that files what it receives in front (C10 tells it from Consume)
ConsumeInFront ==
    /\ metaCh.buf # <<>>
    /\ recvd' = <<Head(metaCh.buf)>> \o recvd
    /\ metaCh' = [metaCh EXCEPT !.buf = Tail(@)]
    /\ UNCHANGED <<input, docs, opts, orig, sc, nbuf, w, fillReady, d, stack, heap, log, lastNext>>

\* the consumer: for mv := range decoder.Stream()
Consume ==
    /\ metaCh.buf # <<>>
    /\ recvd' = Append(recvd, Head(metaCh.buf))
    /\ metaCh' = [metaCh EXCEPT !.buf = Tail(@)]
    /\ UNCHANGED <<input, docs, opts, orig, sc, nbuf, w, fillReady, d, stack, heap, log, lastNext>>

\* The consumer of a finished, error-free decoding with ObjectAsKVS takes a KVS
\* it received, serializes it with MarshalJSON and decodes the bytes with a new
\* decoder, ObjectAsKVS again
Remarshal ==
    /\ orig = <<>>
    /\ opts.kvs
    /\ metaCh.closed /\ metaCh.buf = <<>>
    /\ d.err.kind = "nil"
    /\ \E j \in DOMAIN recvd :
          /\ recvd[j].Value.k = "KVS"
          /\ MarshalJSON(recvd[j].Value).ok
          /\ orig' = <<recvd[j].Value>>
          /\ input' = MarshalJSON(recvd[j].Value).bytes
    /\ docs' = <<>>
    /\ opts' = Opt(0, [Plain EXCEPT !.kvs = TRUE])
    /\ sc' = NewScanner
    /\ nbuf' = [i \in 0..(chunk - 1) |-> 0]
    /\ w' = [pc |-> "read", rpos |-> 0, n |-> 0, off |-> 0, short |-> 0]
    /\ fillReady' = "open"
    /\ d' = NewDecoder(opts')
    /\ stack' = <<DecodeF>>
    /\ heap' = <<>>
    /\ metaCh' = [buf |-> <<>>, closed |-> FALSE]
    /\ recvd' = <<>>
    /\ log' = <<>>
    /\ lastNext' = [adv |-> FALSE, c |-> 0, pos |-> 0]

Parser == decode \/ skipSpaces \/ emitAny \/ any \/ string \/ number \/ array
          \/ object \/ objectOrdered \/ FillReadyClosed \/ NextCopy
Worker == WorkerReadBegin \/ WorkerRead \/ WorkerStoreEnd \/ WorkerClose

Next == Parser \/ Worker \/ FillReady \/ FillReq \/ Consume \/ Remarshal

Spec == Init /\ [][Next]_vars

----------------------------------------------------------------------------
(* Fairness: every goroutine that can step eventually does, the consumer
   keeps receiving, and the reader does not answer (0, nil) forever *)

ReaderDelivers == WorkerRead /\ w'.pc # "read"

FairSpec ==
    /\ Init /\ [][Next]_vars
    /\ WF_vars(Parser) /\ WF_vars(Worker) /\ SF_vars(ReaderDelivers)
    /\ WF_vars(FillReady) /\ WF_vars(FillReq) /\ WF_vars(Consume)

----------------------------------------------------------------------------
(* What the properties are stated over *)

\* every MetaValue placed on the channel so far, in order
Published == recvd \o metaCh.buf

Last(s) == s[Len(s)]

\* the emit rule as specified, on the arguments the decoder was made with
GateOf(o, level) ==
    IF o.emitDepth < 0 THEN level >= 0
    ELSE IF o.recursive THEN level >= o.emitDepth
    ELSE level = o.emitDepth

\* the value a complete document denotes
RECURSIVE Decoded(_)
Decoded(t) ==
    CASE t.k = "int" -> IntV(t.n)
      [] t.k = "float" -> NormFloat(t.m, t.e)
      [] t.k = "exp" -> NormFloat(t.m, t.x)
      [] t.k = "str" -> StrV(t.s)
      [] t.k = "bool" -> BoolV(t.b)
      [] t.k = "null" -> NilV
      [] t.k = "arr" -> ArrV([i \in DOMAIN t.items |-> Decoded(t.items[i])])
      [] t.k = "obj" ->
            IF opts.kvs
            THEN KvsV(FALSE, [i \in DOMAIN t.members |->
                                [Key |-> t.members[i].Key, Value |-> Decoded(t.members[i].Value)]])
            ELSE MapV(FALSE, [x \in {t.members[i].Key : i \in DOMAIN t.members} |->
                                Decoded(t.members[CHOOSE i \in DOMAIN t.members :
                                    /\ t.members[i].Key = x
                                    /\ \A j \in DOMAIN t.members :
                                          t.members[j].Key = x => j <= i].Value)])

\* the values of a document in the order their text ends, each with its depth,
\* its path and whether it is a member of an object
RECURSIVE Walk(_, _, _)
RECURSIVE WalkItems(_, _)
RECURSIVE WalkMembers(_, _)
Walk(t, path, member) ==
    (CASE t.k = "arr" -> WalkItems(t.items, Append(path, <<>>))
       [] t.k = "obj" -> WalkMembers(t.members, path)
       [] OTHER -> <<>>)
    \o <<[level |-> Len(path), path |-> path, member |-> member]>>
WalkItems(items, path) ==
    IF items = <<>> THEN <<>>
    ELSE Walk(Head(items), path, FALSE) \o WalkItems(Tail(items), path)
WalkMembers(ms, path) ==
    IF ms = <<>> THEN <<>>
    ELSE Walk(Head(ms).Value, Append(path, Head(ms).Key), TRUE) \o WalkMembers(Tail(ms), path)

RECURSIVE WalkDocs(_)
WalkDocs(ds) == IF ds = <<>> THEN <<>> ELSE Walk(Head(ds), <<>>, FALSE) \o WalkDocs(Tail(ds))

Gated(e) == GateOf(opts, e.level)

\* a complete input has been decoded to the end
Completed == docs # <<>> /\ metaCh.closed

\* ... and every value of it was parsed
AllParsed == Completed /\ Len(log) = Len(WalkDocs(docs))

IsContainerValue(mv) == mv.ValueType \in {"Array", "Object"}

----------------------------------------------------------------------------
(* C1 *)

\* C1: a value whose parse completed is published exactly when the emit rule
\* holds at its depth (recursive: depth >= emitDepth; otherwise depth =
\* emitDepth), exactly once, with Depth its nesting depth (0 at top level, one
\* more per enclosing container); a negative emitDepth is emitDepth 0, recursive.
C1_EmitGate ==
    /\ opts.emitDepth < 0 => d.emitDepth = 0 /\ d.emitRecursive
    /\ \A i \in DOMAIN log :
          /\ ~log[i].failed => (log[i].emitted <=> GateOf(opts, log[i].level))
          /\ Cardinality({j \in DOMAIN Published : Published[j].id = i})
                = IF log[i].emitted THEN 1 ELSE 0
    /\ \A j \in DOMAIN Published : Published[j].Depth = log[Published[j].id].level

\* a nested value was published and another parsed value was held back
C1_Witness ==
    \E i, j \in DOMAIN log :
        /\ ~log[i].failed /\ ~log[i].emitted
        /\ ~log[j].failed /\ log[j].emitted /\ log[j].level >= 1

----------------------------------------------------------------------------
(* C2 *)

\* C2: an advancing Next returns the input byte at the position it moves Pos
\* to, a Next at the end of the input returns zero without advancing, and Pos
\* never exceeds the number of bytes the reader delivered.
C2_NextFollowsInput ==
    /\ sc.Pos <= Len(input)
    /\ lastNext.adv =>
          /\ lastNext.pos >= 1 /\ lastNext.pos <= Len(input)
          /\ lastNext.c = input[lastNext.pos]
    /\ ~lastNext.adv => lastNext.c = 0

----------------------------------------------------------------------------
(* C3 *)

\* C3: with a reader that reaches end-of-input and a consumer that keeps
\* receiving, the parser and the prefetch worker do not block each other for
\* ever: the emission channel is eventually closed, for valid input and for
\* input that ends in a parse error.
C3_EventuallyClosed == <>(metaCh.closed)

\* the channel was closed after a parse error with input left unread
C3_Witness == metaCh.closed /\ d.err.kind = "syntax" /\ sc.Pos < Len(input)

----------------------------------------------------------------------------
(* C4 *)

\* C4: emitDepth 0, not recursive, n top-level values separated by whitespace:
\* when decoding has ended exactly n MetaValues were published, the i-th
\* carrying the i-th value, and Err() is nil.
C4_OnePerDocument ==
    (Completed /\ opts.emitDepth = 0 /\ ~opts.recursive) =>
        /\ Len(Published) = Len(docs)
        /\ \A i \in DOMAIN Published :
              i <= Len(docs) => Published[i].Value = Decoded(docs[i])
        /\ d.err = NoErr

----------------------------------------------------------------------------
(* C5 *)

\* C5: when a MetaValue is placed on the channel its Keys is the path from
\* the root to the value: one entry per enclosing container, outermost first,
\* the member name for an object and "" for an array.
C5_KeysArePath ==
    \A j \in DOMAIN Published : Published[j].keys0 = log[Published[j].id].path

\* values at depth 2 under two different members were published
C5_Witness ==
    \E i, j \in DOMAIN Published :
        /\ i < j
        /\ Published[i].keys0 = <<ka, kb>>
        /\ Published[j].keys0 = <<kb, <<>>>>

----------------------------------------------------------------------------
(* C6 *)

\* C6: the Keys of a MetaValue read the same at any later time as when it was
\* published, whatever the parser appends for later siblings.
C6_KeysNeverChange ==
    \A j \in DOMAIN Published : Deref(heap, Published[j].Keys) = Published[j].keys0

----------------------------------------------------------------------------
(* C7 *)

\* C7: in every configuration the number of entries of Keys equals Depth.
C7_KeysLenIsDepth ==
    \A j \in DOMAIN Published :
        /\ Published[j].Keys.len = Published[j].Depth
        /\ Len(Published[j].keys0) = Published[j].Depth

\* a key-value emission below the top level of an ordered object
C7_Witness ==
    \E j \in DOMAIN Published :
        /\ Published[j].Depth >= 2
        /\ Published[j].Value.k = "KV"
        /\ d.objectAsKVS /\ d.emitRecursive

----------------------------------------------------------------------------
(* C8 *)

\* C8: an object member whose value was parsed at an emitting depth is
\* published exactly once: with EmitKV as a KV of the member name (the last
\* entry of Keys) and the decoded value, never bare; without EmitKV bare, and
\* no KV is ever published.  Which values are published, and in which order,
\* does not depend on EmitKV: for a complete input parsed to its end they are
\* the values of the documents at the emitting depths, in document order.
C8_MembersAsKV ==
    /\ \A i \in DOMAIN log :
          (log[i].member /\ ~log[i].failed /\ GateOf(opts, log[i].level)) =>
              \E j \in DOMAIN Published :
                  /\ Published[j].id = i
                  /\ \A k \in DOMAIN Published : Published[k].id = i => k = j
                  /\ IF opts.kv
                     THEN /\ Published[j].Value = [k |-> "KV", Key |-> Last(log[i].path),
                                                   Value |-> log[i].v]
                          /\ Published[j].Value.Key = Last(Published[j].keys0)
                     ELSE Published[j].Value = log[i].v
    /\ \A j \in DOMAIN Published :
          (Published[j].Value.k = "KV") <=> (opts.kv /\ log[Published[j].id].member)
    /\ AllParsed =>
          [j \in DOMAIN Published |->
              [level |-> Published[j].Depth, path |-> Published[j].keys0,
               member |-> log[Published[j].id].member]]
            = SelectSeq(WalkDocs(docs), Gated)

\* EmitKV, decoding ended: a member went out as KV and another value bare
C8_Witness ==
    /\ opts.kv /\ AllParsed
    /\ \E i, j \in DOMAIN Published :
          /\ Published[i].Value.k = "KV" /\ Published[i].Value.Value = IntV(1)
          /\ Published[j].Value.k # "KV"

----------------------------------------------------------------------------
(* C9 *)

\* C9: in recursive mode the consumer receives the MetaValue of a container
\* after those of all values inside it and before that of any value that
\* starts after the container closes.
C9_ContainerAfterDescendants ==
    d.emitRecursive =>
        \A p, q \in DOMAIN recvd :
            IsContainerValue(recvd[q]) =>
                /\ ( /\ recvd[p].Depth > recvd[q].Depth
                     /\ recvd[q].Offset <= recvd[p].Offset
                     /\ recvd[p].Offset < recvd[q].Offset + recvd[q].Length ) => p < q
                /\ recvd[p].Offset >= recvd[q].Offset + recvd[q].Length => q < p

\* a container received after a value inside it and before a later value
C9_Witness ==
    /\ d.emitRecursive
    /\ \E p, q, r \in DOMAIN recvd :
          /\ p < q /\ q < r
          /\ IsContainerValue(recvd[q])
          /\ recvd[p].Depth > recvd[q].Depth
          /\ recvd[q].Offset <= recvd[p].Offset
          /\ recvd[r].Offset >= recvd[q].Offset + recvd[q].Length

----------------------------------------------------------------------------
(* C10 *)

\* C10: of two MetaValues of equal Depth the one received later has an
\* Offset + Length at least that of the earlier one, in every configuration.
C10_DocumentOrder ==
    \A p, q \in DOMAIN recvd :
        (p < q /\ recvd[p].Depth = recvd[q].Depth) =>
            recvd[p].Offset + recvd[p].Length <= recvd[q].Offset + recvd[q].Length

\* two key-value emissions of one depth were received
C10_Witness ==
    \E p, q \in DOMAIN recvd :
        /\ p < q /\ recvd[p].Depth = recvd[q].Depth
        /\ recvd[p].Value.k = "KV" /\ recvd[q].Value.k = "KV"
        /\ recvd[p].Offset + recvd[p].Length < recvd[q].Offset + recvd[q].Length

----------------------------------------------------------------------------
(* C11 *)

\* C11: for a valid input every published MetaValue has Length >= 1, also
\* for a number literal that is the last thing in the input.
C11_LengthPositive ==
    docs # <<>> => \A j \in DOMAIN Published : Published[j].Length >= 1

----------------------------------------------------------------------------
(* C12 *)

\* the values of a document, each with its path and its text
RECURSIVE Texts(_, _)
Texts(t, path) ==
    {[path |-> path, text |-> Render(t)]}
    \cup (CASE t.k = "arr" ->
                 UNION {Texts(t.items[i], Append(path, <<>>)) : i \in DOMAIN t.items}
            [] t.k = "obj" ->
                 UNION {Texts(t.members[i].Value, Append(path, t.members[i].Key)) :
                            i \in DOMAIN t.members}
            [] OTHER -> {})

TextsOfDocs == UNION {Texts(docs[i], <<>>) : i \in DOMAIN docs}

\* input[Offset .. Offset+Length)
Covered(mv) == [i \in 1..mv.Length |-> input[mv.Offset + i]]

\* C12: for a valid input, Offset and Length of every published MetaValue,
\* bare or KV, delimit exactly the text of the value at its path: from its
\* first byte through its last, so "[]" and "{}" have Length 2.
C12_SpanIsValueText ==
    docs # <<>> =>
        \A j \in DOMAIN Published :
            /\ Published[j].Offset >= 0
            /\ Published[j].Length >= 0
            /\ Published[j].Offset + Published[j].Length <= Len(input)
            /\ [path |-> Published[j].keys0, text |-> Covered(Published[j])] \in TextsOfDocs

----------------------------------------------------------------------------
(* C13 *)

\* C13: after a parsing step has returned an error no further value is
\* parsed (only the containers around the failure return, failed as well);
\* once the channel is closed Err() is that error, and it is nil exactly when
\* no step failed; what was published before the error stays on the channel
\* in the order it was published.
C13_ErrorEndsDecoding ==
    /\ \A i, j \in DOMAIN log :
          (i < j /\ log[i].failed) => (log[j].failed /\ log[j].level < log[i].level)
    /\ \A i, j \in DOMAIN Published : i < j => Published[i].id <= Published[j].id
    /\ metaCh.closed =>
          /\ (\E i \in DOMAIN log : log[i].failed) => d.err.kind # "nil"
          /\ d.err.kind # "nil" =>
                \/ log # <<>> /\ Last(log).failed /\ Last(log).level = 0
                \/ d.err.kind = "eof" /\ sc.Pos >= sc.End
                     /\ \A i \in DOMAIN log : ~log[i].failed
    /\ (\E k \in DOMAIN stack : stack[k].fn = "decode" /\ stack[k].pc # "close")
          => d.err.kind = "nil" /\ ~metaCh.closed

\* closed on a syntax error below the top level, after a good value was received
C13_Witness ==
    /\ metaCh.closed /\ d.err.kind = "syntax"
    /\ \E i \in DOMAIN log : log[i].failed /\ log[i].level >= 1
    /\ recvd # <<>> /\ ~log[recvd[1].id].failed

----------------------------------------------------------------------------
(* C14 *)

\* the input is the beginning of an array, an object or a literal and stops
\* short, outside any string
CutShort ==
    /\ docs = <<>>
    /\ \A i \in DOMAIN input : input[i] # B.x
    /\ input[1] \in {B.lbrack, B.lbrace, B.t}
    /\ Cardinality({i \in DOMAIN input : input[i] = B.quote}) % 2 = 0

\* C14: when the input is exhausted while an array, an object or a literal
\* still needs a byte, decoding ends with the unexpected-end-of-input error,
\* not with the invalid-character error.
C14_CutShortIsEOF ==
    (CutShort /\ metaCh.closed) => d.err.kind = "eof"

----------------------------------------------------------------------------
(* C15 *)

\* the input holds a '-' (not an exponent's sign) or a '.' with a byte after
\* it that is no digit
OffGrammar ==
    \E i \in DOMAIN input :
        /\ i < Len(input)
        /\ ~IsDigit(input[i + 1])
        /\ \/ input[i] = B.dot
           \/ input[i] = B.minus /\ (i = 1 \/ input[i - 1] \notin {B.e, B.E})

\* C15: a '-' must be followed by a digit and a '.' by a digit: for an input
\* where one is not, no Number is published and decoding ends with an error.
C15_NumberGrammar ==
    OffGrammar =>
        /\ \A j \in DOMAIN Published : Published[j].ValueType # "Number"
        /\ metaCh.closed => d.err.kind # "nil"

----------------------------------------------------------------------------
(* C16 *)

\* the values of a document in the order their text ends
RECURSIVE WalkTrees(_)
RECURSIVE WalkTreesOf(_)
WalkTrees(t) ==
    (CASE t.k = "arr" -> WalkTreesOf(t.items)
       [] t.k = "obj" -> WalkTreesOf([i \in DOMAIN t.members |-> t.members[i].Value])
       [] OTHER -> <<>>) \o <<t>>
WalkTreesOf(ts) == IF ts = <<>> THEN <<>> ELSE WalkTrees(Head(ts)) \o WalkTreesOf(Tail(ts))

\* a value with the magnitude of each number forgotten: its representation and sign
RECURSIVE Shape(_)
Shape(v) ==
    CASE v.k = "int64" -> [k |-> "int64", neg |-> v.n < 0]
      [] v.k = "float64" -> [k |-> "float64", neg |-> v.neg]
      [] v.k = "slice" -> [k |-> "slice", items |-> [i \in DOMAIN v.items |-> Shape(v.items[i])]]
      [] v.k = "map" -> [k |-> "map", isnil |-> v.isnil,
                         m |-> [x \in DOMAIN v.m |-> Shape(v.m[x])]]
      [] v.k = "KVS" -> [k |-> "KVS", isnil |-> v.isnil,
                         kvs |-> [i \in DOMAIN v.kvs |->
                                    [Key |-> v.kvs[i].Key, Value |-> Shape(v.kvs[i].Value)]]]
      [] v.k = "KV" -> [k |-> "KV", Key |-> v.Key, Value |-> Shape(v.Value)]
      [] OTHER -> v

IsNumberTree(t) == t.k \in {"int", "float", "exp"}

\* C16: a number literal without '.', 'e', 'E' is decoded to an int64, one
\* with any of them to a float64, a leading '-' giving the negative of the
\* same representation, with ValueType Number: as the value parsed and as
\* a leaf of every published array or object.
C16_NumberRepresentation ==
    docs # <<>> =>
        /\ Len(log) <= Len(WalkTreesOf(docs))
        /\ \A i \in DOMAIN log :
              LET t == WalkTreesOf(docs)[i] IN
              /\ ~log[i].failed
              /\ log[i].level = WalkDocs(docs)[i].level
              /\ IsNumberTree(t) =>
                    /\ log[i].t = "Number"
                    /\ Shape(log[i].v) = [k |-> IF t.k = "int" THEN "int64" ELSE "float64",
                                          neg |-> IF t.k = "int" THEN t.n < 0 ELSE t.m < 0]
        /\ \A j \in DOMAIN Published :
              LET t == WalkTreesOf(docs)[Published[j].id]
                  v == IF Published[j].Value.k = "KV" THEN Published[j].Value.Value
                       ELSE Published[j].Value
              IN Shape(v) = Shape(Decoded(t))

\* an array holding a negative integer and a negative float was published
C16_Witness ==
    \E j \in DOMAIN Published :
        /\ Published[j].Value.k = "slice"
        /\ Len(Published[j].Value.items) = 2
        /\ Published[j].Value.items[1] = IntV(0 - 1)
        /\ Published[j].Value.items[2] = FloatV(0 - 25, 0 - 1)

(* C17 *)

\* the primitive values held anywhere inside a value
RECURSIVE Leaves(_)
Leaves(v) ==
    CASE v.k = "slice" -> UNION {Leaves(v.items[i]) : i \in DOMAIN v.items}
      [] v.k = "map" -> UNION {Leaves(v.m[x]) : x \in DOMAIN v.m}
      [] v.k = "KVS" -> UNION {Leaves(v.kvs[i].Value) : i \in DOMAIN v.kvs}
      [] v.k = "KV" -> Leaves(v.Value)
      [] OTHER -> {v}

\* C17: an integer literal inside an array or object that is published as a
\* container is held there as a float64: for a valid input no published
\* map, KVS or slice holds an int64 leaf.
C17_IntegerLeafIsFloat ==
    docs # <<>> => \A j \in DOMAIN Published :
        Published[j].Value.k \in {"slice", "map", "KVS"} =>
            \A l \in Leaves(Published[j].Value) : l.k # "int64"

(* C18 *)

\* the input is the string "\uD834\uDCB2", alone or followed by a newline
IsSurrogateInput == input = SurrogatePair \/ input = SurrogatePair \o <<B.nl>>

\* the one string published for the surrogate-pair input is the UTF-8
\* encoding of the code point r, and decoding ends without an error
PairDecodesTo(r) ==
    IsSurrogateInput =>
        /\ Len(Published) <= 1
        /\ \A j \in DOMAIN Published :
              /\ Published[j].ValueType = "String"
              /\ Published[j].Value = StrV(EncodeRune(r))
              /\ Len(Published[j].Value.s) = 4
        /\ metaCh.closed => Len(Published) = 1 /\ d.err.kind = "nil"

\* C18 as stated: the escape pair \uD834\uDCB2 decodes to the single code
\* point U+1D4B2, four UTF-8 bytes.
C18_PairIsU1D4B2 == PairDecodesTo(1 * 65536 + 13 * 4096 + 4 * 256 + 11 * 16 + 2)

\* C18, amended: the escape pair \uD834\uDCB2 is combined as a UTF-16
\* surrogate pair and decodes to the single code point U+1D0B2, four UTF-8
\* bytes F0 9D 82 B2.
C18_PairIsU1D0B2 ==
    /\ PairDecodesTo(1 * 65536 + 13 * 4096 + 0 * 256 + 11 * 16 + 2)
    /\ EncodeRune(1 * 65536 + 13 * 4096 + 0 * 256 + 11 * 16 + 2) = <<240, 157, 130, 178>>

\* the string of the surrogate-pair input was published and decoding ended
C18_Witness ==
    /\ IsSurrogateInput
    /\ metaCh.closed
    /\ Len(Published) = 1
    /\ Len(Published[1].Value.s) = 4

(* C19 *)

\* C19: a KVS published with ObjectAsKVS from a valid input, written by
\* MarshalJSON and decoded again with ObjectAsKVS, comes back: decoding the
\* bytes ends without an error and publishes one value, a KVS equal to the
\* original in keys, order, values and value representations.
C19_RoundTrip ==
    orig # <<>> =>
        /\ \A j \in DOMAIN Published : Published[j].Value = orig[1]
        /\ metaCh.closed => d.err.kind = "nil" /\ Len(Published) = 1

\* a serialized KVS was decoded again to the end
C19_Witness ==
    /\ orig # <<>>
    /\ metaCh.closed
    /\ Len(recvd) = 1

(* C20 *)

\* C20: the prefetch goroutine is never in r.Read(sr.nbuf[:]), or about to
\* call it, while Next copies nbuf: when Next is at the copy, it has received
\* on fillReady and the goroutine is waiting for the next fill request or has
\* returned; and when Next, its copy done, sends the next fill request, the
\* goroutine is still waiting for it.
C20_NbufExclusive ==
    /\ sc.np = "copy" => w.pc \in {"wait", "done"}
    /\ w.pc \in {"read", "reading", "send", "eof", "close"} => sc.np # "copy"
    /\ sc.np = "send" => w.pc = "wait"

\* Next copies a chunk that is not the first while the goroutine waits
C20_Witness ==
    /\ sc.np = "copy"
    /\ w.pc = "wait"
    /\ w.rpos > chunk

(* C21 *)

\* the decode goroutine is blocked in d.metaCh <- ... on the full channel
SendBlocked ==
    LET f == stack[Len(stack)] IN
    /\ Len(metaCh.buf) >= MetaChCap
    /\ sc.np = "idle"
    /\ willEmit(d)
    /\ \/ f.fn = "emitAny" /\ f.pc = "after"
       \/ f.fn \in {"object", "objectOrdered"} /\ f.pc = "kv_any" /\ f.ret.err.kind = "nil"

\* C21: the read-ahead is bounded by backpressure. What the goroutine has read
\* and the parser has not consumed is at most the active buffer and one more
\* chunk, and at most the active buffer while the goroutine is at its Read
\* (every earlier chunk was handed over); and while the parser stays blocked
\* sending on the full emission channel, a goroutine that has completed its
\* Read, or waits for a fill request, takes no step.
C21_Backpressure ==
    /\ [](w.rpos - sc.Pos <= 2 * chunk)
    /\ [](w.pc \in {"read", "reading"} => w.rpos - sc.Pos <= chunk)
    /\ [][SendBlocked /\ SendBlocked' /\ w.pc \in {"send", "wait"} => w' = w /\ nbuf' = nbuf]_vars

\* the parser is blocked on the full channel while the goroutine holds a
\* chunk it cannot hand over and the reader has more to give
C21_Witness ==
    /\ SendBlocked
    /\ w.pc = "send"
    /\ w.off < Len(input)

(* C22 *)

\* the calls of array, object and objectOrdered on the stack that are past
\* their d.depth++
RECURSIVE Entered(_)
Entered(st) ==
    IF st = <<>> THEN 0
    ELSE Entered(Tail(st))
         + (IF Head(st).fn \in {"array", "object", "objectOrdered"} /\ Head(st).pc # "start"
            THEN 1 ELSE 0)

\* C22: the depth counter is balanced: it is never negative, it counts the
\* arrays and objects entered and not yet left, on the success path and on
\* every error path, and it is 0 whenever the top-level loop runs, when it
\* starts parsing a top-level value and when decoding has ended.
C22_DepthBalanced ==
    /\ d.depth >= 0
    /\ stack[Len(stack)].fn # "panic" => d.depth = Entered(stack)
    /\ stack[Len(stack)].fn = "decode" => d.depth = 0
    /\ Len(stack) = 2 /\ stack[2].fn = "emitAny" /\ stack[2].pc = "start" => d.depth = 0
    /\ metaCh.closed => d.depth = 0

\* decoding ended with an error found inside a container
C22_Witness ==
    /\ metaCh.closed
    /\ d.err.kind # "nil"
    /\ d.depth = 0
    /\ \E i \in DOMAIN log : log[i].failed /\ log[i].level >= 1

(* C23 *)

\* a container value that holds no child and was never allocated
Unallocated(v) ==
    /\ v.isnil
    /\ CASE v.k = "slice" -> v.items = <<>>
         [] v.k = "map" -> DOMAIN v.m = {}
         [] v.k = "KVS" -> v.kvs = <<>>

\* C23: for a valid input, an array or object whose children lie deeper than
\* emitDepth is returned holding every child, in document order for arrays
\* and ordered objects; one whose children lie at emitDepth or above is
\* returned unallocated and holding none, arrays, maps and KVS alike, and its
\* children at emitDepth are emitted all the same.
C23_AllocationGate ==
    docs # <<>> =>
        \A i \in DOMAIN log :
            LET t == WalkTreesOf(docs)[i] IN
            /\ i <= Len(WalkTreesOf(docs))
            /\ ~log[i].failed /\ t.k \in {"arr", "obj"} =>
                  IF log[i].level + 1 > d.emitDepth
                  THEN log[i].v = Decoded(t)
                  ELSE Unallocated(log[i].v)
            /\ ~log[i].failed /\ log[i].level = d.emitDepth => log[i].emitted

(* C24 *)

\* the last Next read a byte of the input as the first of a new chunk, and
\* one Back has taken it back
BackAcrossRefill ==
    /\ sc.np = "idle"
    /\ sc.ipos = 0
    /\ lastNext.adv
    /\ lastNext.pos = sc.Pos + 1
    /\ sc.Pos >= 1
    /\ lastNext.pos <= Len(input)

\* C24: after a Next that crossed into a new chunk and one Back, Cur is the
\* byte before it in the input, the last byte of the previous chunk, and the
\* next Next returns the first byte of the new chunk again without a refill,
\* however the reader cut the input into chunks.
C24_Lookback ==
    BackAcrossRefill =>
        /\ Cur(sc) = input[sc.Pos]
        /\ sc.ifill >= 1
        /\ sc.buf[1] = input[sc.Pos + 1]
        /\ sc.buf[1] = lastNext.c

\* a Back across a refill
C24_Witness == BackAcrossRefill /\ Cur(sc) = input[sc.Pos]

(* C25 *)

\* C25: no MetaValue is published for a value whose parse failed: every
\* published MetaValue belongs to a parse that returned without an error and
\* none has ValueType Unknown, in plain mode as with EmitKV.
C25_NoEmitAfterError ==
    \A j \in DOMAIN Published :
        /\ ~log[Published[j].id].failed
        /\ Published[j].ValueType # "Unknown"

\* with EmitKV a member's parse failed and nothing was published for it
C25_Witness ==
    /\ opts.kv
    /\ metaCh.closed
    /\ \E i \in DOMAIN log :
          /\ log[i].failed /\ log[i].kv
          /\ \A j \in DOMAIN Published : Published[j].id # i

(* C26 *)

\* C26: whenever decoding has ended and the emission channel is closed, at
\* end-of-input or at a parse error, the prefetch goroutine eventually returns.
C26_WorkerReturns == metaCh.closed ~> (w.pc = "done")

\* decoding ended with an error while the goroutine holds a chunk that no
\* Next will receive
C26_Witness ==
    /\ metaCh.closed
    /\ d.err.kind # "nil"
    /\ w.pc = "send"

====
